---- MODULE Spec2Model ----
(***************************************************************************)
(* Mock-interview backend: the deterministic answer scorer                 *)
(* (routes/performance.ts), the question generator (routes/questions.ts),  *)
(* the resume parser (utils/pdfParser.ts) and the fallback chains of the   *)
(* two generative routes.                                                  *)
(*                                                                         *)
(* Text is a TLA+ string; a character is a string of length 1.             *)
(***************************************************************************)
EXTENDS Integers, Sequences, FiniteSets, TLC

VARIABLES
    questions,  \* scorer: the questions handed to generateSmartAnalysis
    answers,    \* scorer: the answer batch handed to generateSmartAnalysis
    jobDetails, \* scorer: the job details handed to generateSmartAnalysis
    analysis,   \* scorer: result of analyzeAnswers, or NoValue
    scores,     \* scorer: result of calculateScores, or NoValue
    smart,      \* scorer: record returned by generateSmartAnalysis, or NoValue
    spc,        \* scorer: position inside generateSmartAnalysis
    genJob,       \* question generator: the job details of the call
    genResume,    \* question generator: the resume of the call, or NoResume
    genQuestions, \* question generator: the list returned, or NoValue
    gpc,          \* question generator: "call" before, "done" after the call
    apiKey,     \* routes: whether GOOGLE_GENAI_API_KEY is set in the environment
    reqs,       \* routes: per request, its route, body, position, stages and responses
    resumeText, \* parser: the text handed to parseResumeContent
    fault,      \* parser: the extractor that throws in this call, 0 for none
    result,     \* parser: the record returned, or NoValue
    ppc,        \* parser: "call" before the call, "returned" or "thrown" after it
    replyText,      \* reconciliation: the backend text handed to the extractor
    replyReader,    \* reconciliation: "genai" or "ollama", the extractor called
    replyQuestions, \* reconciliation: the list returned, or NoValue
    rpc,            \* reconciliation: "call" before, "done" after the call
    calls,          \* engines: the calls made so far, each with its arguments and result
    fbAnalysis,     \* feedback: the AnswerAnalysis handed to calculateScores and generateFeedback
    fbJob,          \* feedback: the job details handed to generateFeedback
    fbScores,       \* feedback: result of calculateScores, or NoValue
    fbFeedback,     \* feedback: result of generateFeedback, or NoValue
    fpc,            \* feedback: "score", "feedback", "done"
    saveBody,       \* save-interview: the request body
    stored,         \* save-interview: the documents of the User collection
    saveResponse,   \* save-interview: the response sent, or NoValue
    dbUp,           \* save-interview: whether the database accepts writes
    svpc            \* save-interview: "entry", "saving" (awaiting save), "done"

scorerVars == <<questions, answers, jobDetails, analysis, scores, smart, spc>>
questionVars == <<genJob, genResume, genQuestions, gpc>>
routeVars == <<apiKey, reqs>>
parseVars == <<resumeText, fault, result, ppc>>
reconcileVars == <<replyText, replyReader, replyQuestions, rpc>>
engineVars == <<calls>>
feedbackVars == <<fbAnalysis, fbJob, fbScores, fbFeedback, fpc>>
saveVars == <<saveBody, stored, saveResponse, dbUp, svpc>>

vars == <<scorerVars, questionVars, routeVars, parseVars, reconcileVars, engineVars, feedbackVars, saveVars>>

NoValue == "undefined"

(***************************************************************************)
(* Characters and the String.prototype methods the code uses               *)
(***************************************************************************)
UpperLetters == "ABCDEFGHIJKLMNOPQRSTUVWXYZ"
LowerLetters == "abcdefghijklmnopqrstuvwxyz"
DigitChars == "0123456789"
Consonants == "bcdfghjklmnpqrstvwxyz"

CharAt(s, i) == SubSeq(s, i, i)

CharsOf(s) == {CharAt(s, i) : i \in 1..Len(s)}

IsUpper(c) == c \in CharsOf(UpperLetters)
IsLower(c) == c \in CharsOf(LowerLetters)
IsLetter(c) == IsUpper(c) \/ IsLower(c)
IsDigit(c) == c \in CharsOf(DigitChars)
\* \s of a JavaScript regular expression, and the characters trim() removes
IsSpace(c) == c \in {" ", "\t", "\n", "\r", "\f"}
\* \w of a JavaScript regular expression
IsWordChar(c) == IsLetter(c) \/ IsDigit(c) \/ c = "_"

LowerChar(c) ==
    IF IsUpper(c)
    THEN CharAt(LowerLetters, CHOOSE k \in 1..26 : CharAt(UpperLetters, k) = c)
    ELSE c

\* computed by halves, which keeps the evaluation shallow on long texts
RECURSIVE toLowerCase(_)
toLowerCase(s) ==
    IF Len(s) = 0 THEN ""
    ELSE IF Len(s) = 1 THEN LowerChar(s)
    ELSE LET h == Len(s) \div 2
         IN  toLowerCase(SubSeq(s, 1, h)) \o toLowerCase(SubSeq(s, h + 1, Len(s)))

NonSpaceAt(s) == {i \in 1..Len(s) : ~IsSpace(CharAt(s, i))}

SetMin(S) == CHOOSE x \in S : \A y \in S : x <= y
SetMax(S) == CHOOSE x \in S : \A y \in S : x >= y

trimStart(s) ==
    IF NonSpaceAt(s) = {} THEN "" ELSE SubSeq(s, SetMin(NonSpaceAt(s)), Len(s))

trimEnd(s) ==
    IF NonSpaceAt(s) = {} THEN "" ELSE SubSeq(s, 1, SetMax(NonSpaceAt(s)))

trim(s) == trimEnd(trimStart(s))

\* s.includes(k)
includes(s, k) ==
    \E i \in 0..(Len(s) - Len(k)) : SubSeq(s, i + 1, i + Len(k)) = k

startsWith(s, k) == Len(k) <= Len(s) /\ SubSeq(s, 1, Len(k)) = k

includesAny(s, ks) == \E k \in ks : includes(s, k)

Min(a, b) == IF a <= b THEN a ELSE b
Max(a, b) == IF a >= b THEN a ELSE b

\* text.split(/\s+/).filter(word => word.length > 0).length
countWords(s) ==
    Cardinality({i \in 1..Len(s) :
        /\ ~IsSpace(CharAt(s, i))
        /\ (i = 1 \/ IsSpace(CharAt(s, i - 1)))})

(***************************************************************************)
(* Deterministic answer analyzer  (routes/performance.ts)                  *)
(***************************************************************************)
technicalVocabulary ==
    {"technology", "software", "system", "development", "coding", "programming",
     "api", "database", "framework", "react", "node", "javascript"}

experienceVocabulary ==
    {"experience", "worked", "project", "developed", "implemented", "built",
     "created", "managed", "led"}

problemSolvingVocabulary ==
    {"challenge", "problem", "solved", "overcame", "difficult", "troubleshoot",
     "debug", "fix", "issue"}

specificExampleVocabulary ==
    {"example", "specific", "instance", "case", "situation", "time when",
     "once", "when i"}

meaningfulWords ==
    {"worked", "developed", "created", "built", "implemented", "designed",
     "managed", "led", "collaborated", "solved", "challenge", "problem",
     "experience", "project", "team", "result", "outcome", "success",
     "learned", "improved", "optimized", "enhanced", "achieved"}

\* /^[a-z]{1,4}$/i
matchesShortLetters(text) ==
    Len(text) \in 1..4 /\ \A i \in 1..Len(text) : IsLetter(CharAt(text, i))

\* /^[^a-zA-Z0-9\s]*$/
matchesOnlySpecial(text) ==
    \A i \in 1..Len(text) :
        LET c == CharAt(text, i) IN ~IsLetter(c) /\ ~IsDigit(c) /\ ~IsSpace(c)

\* /^[0-9\s]*$/
matchesOnlyNumbers(text) ==
    \A i \in 1..Len(text) :
        LET c == CharAt(text, i) IN IsDigit(c) \/ IsSpace(c)

\* /(.)\1{2,}/  (the dot matches no line terminator)
matchesRepeated(text) ==
    \E i \in 1..(Len(text) - 2) :
        /\ CharAt(text, i) \notin {"\n", "\r"}
        /\ CharAt(text, i + 1) = CharAt(text, i)
        /\ CharAt(text, i + 2) = CharAt(text, i)

\* /^[bcdfghjklmnpqrstvwxyz]{1,4}$/i
matchesOnlyConsonants(text) ==
    Len(text) \in 1..4
    /\ \A i \in 1..Len(text) : LowerChar(CharAt(text, i)) \in CharsOf(Consonants)

SingleWordLimit == 1
ShortAnswerLimit == 4

isNonsensicalAnswer(text, wordCount) ==
    IF wordCount <= SingleWordLimit THEN TRUE
    ELSE IF wordCount <= ShortAnswerLimit
         THEN \/ matchesShortLetters(text)
              \/ matchesOnlySpecial(text)
              \/ matchesOnlyNumbers(text)
              \/ matchesRepeated(text)
              \/ matchesOnlyConsonants(text)
         ELSE FALSE

VeryShortWords == 10
ShortWords == 20

isPoorQualityAnswer(text, wordCount) ==
    IF wordCount < VeryShortWords THEN TRUE
    ELSE IF wordCount < ShortWords
         THEN ~includesAny(text, meaningfulWords)
         ELSE FALSE

CommMinWords == 20
CommMaxWords == 200

\* text.split(/[.!?]+/).length > 1
hasSentenceBreak(text) == \E i \in 1..Len(text) : CharAt(text, i) \in {".", "!", "?"}

emptyAnalysis ==
    [totalWords |-> 0, averageLength |-> 0, technicalTerms |-> 0,
     experienceMentions |-> 0, problemSolving |-> 0, specificExamples |-> 0,
     communicationQuality |-> 0, nonsensicalAnswers |-> 0,
     poorQualityAnswers |-> 0, meaningfulAnswers |-> 0]

Bump(cond) == IF cond THEN 1 ELSE 0

\* What the forEach callback of analyzeAnswers finds in one answer text.
signalsOf(answerText) ==
    LET text == trim(toLowerCase(answerText))
        wordCount == countWords(text)
        nonsensical == isNonsensicalAnswer(text, wordCount)
    IN  [wordCount |-> wordCount,
         nonsensical |-> nonsensical,
         poor |-> ~nonsensical /\ isPoorQualityAnswer(text, wordCount),
         technical |-> includesAny(text, technicalVocabulary),
         experience |-> includesAny(text, experienceVocabulary),
         problemSolving |-> includesAny(text, problemSolvingVocabulary),
         specificExample |-> includesAny(text, specificExampleVocabulary),
         communication |-> /\ wordCount >= CommMinWords
                           /\ wordCount <= CommMaxWords
                           /\ hasSentenceBreak(text)]

\* variant of analyzeOne: a nonsensical answer is counted and then analysed
\* like any other answer (the early return is missing)
analyzeOneNoReturn(acc, sig) ==
    [acc EXCEPT
        !.totalWords = @ + sig.wordCount,
        !.averageLength = @ + sig.wordCount,
        !.nonsensicalAnswers = @ + Bump(sig.nonsensical),
        !.poorQualityAnswers = @ + Bump(sig.poor),
        !.meaningfulAnswers = @ + Bump(~sig.nonsensical /\ ~sig.poor),
        !.technicalTerms = @ + Bump(sig.technical),
        !.experienceMentions = @ + Bump(sig.experience),
        !.problemSolving = @ + Bump(sig.problemSolving),
        !.specificExamples = @ + Bump(sig.specificExample),
        !.communicationQuality = @ + Bump(sig.communication)]

\* The forEach callback of analyzeAnswers, applied to the running record;
\* sig is signalsOf(answer.answer).
analyzeOne(acc, sig) ==
    LET counted == [acc EXCEPT !.totalWords = @ + sig.wordCount,
                               !.averageLength = @ + sig.wordCount]
    IN  IF sig.nonsensical
        THEN [counted EXCEPT !.nonsensicalAnswers = @ + 1]
        ELSE [counted EXCEPT
                !.poorQualityAnswers = @ + Bump(sig.poor),
                !.meaningfulAnswers = @ + Bump(~sig.poor),
                !.technicalTerms = @ + Bump(sig.technical),
                !.experienceMentions = @ + Bump(sig.experience),
                !.problemSolving = @ + Bump(sig.problemSolving),
                !.specificExamples = @ + Bump(sig.specificExample),
                !.communicationQuality = @ + Bump(sig.communication)]

\* The answer texts the model draws batches from.
AnswerPool ==
    {"yup",
     "React",
     "12 34",
     "I like React",
     "We usually ship on Friday and then everybody goes home early, okay?",
     "Once I fixed a difficult database issue when I worked at Acme",
     "I developed a React dashboard at my last job handling 10k daily users, solved a caching bug that cut load time by half, and collaborated daily with a cross-functional team.",
     "My weekends are mostly spent hiking with friends and cooking large dinners for my family while listening to old records"}

\* signalsOf on every text of the pool, evaluated once
SignalTable == [t \in AnswerPool |-> signalsOf(t)]

RECURSIVE foldAnswers(_, _)
foldAnswers(acc, as) ==
    IF as = <<>> THEN acc
    ELSE foldAnswers(analyzeOne(acc, SignalTable[Head(as).answer]), Tail(as))

\* A quotient of two integers; den = 0 stands for NaN (0 / 0).
Ratio(num, den) == [num |-> num, den |-> den]

\* variant of analyzeAnswers: the record analysis is a binding of the module
\* and not of the call, so every call adds to the counts left by the calls
\* before it
analyzeAnswersKept(as) ==
    LET RECURSIVE kept(_)
        kept(k) ==
            IF k = 0 THEN emptyAnalysis
            ELSE IF calls[k].engine = "generateSmartAnalysis"
                 THEN foldAnswers(kept(k - 1), calls[k].args.answers)
                 ELSE kept(k - 1)
        summed == foldAnswers(kept(Len(calls)), as)
    IN  [summed EXCEPT !.averageLength = Ratio(summed.averageLength, Len(as))]

analyzeAnswers(as) ==
    LET summed == foldAnswers(emptyAnalysis, as)
    IN  [summed EXCEPT !.averageLength = Ratio(summed.averageLength, Len(as))]

(***************************************************************************)
(* Score calculator.  The code keeps fractional values (a mean of three    *)
(* integers) until generateSmartAnalysis rounds them; here every internal  *)
(* score is held in thirds of a point (value * 3), which makes the mean    *)
(* exact.                                                                  *)
(***************************************************************************)
Thirds == 3

Pts(n) == Thirds * n

ScoreSet(o, t, b, c) ==
    [overall |-> o, technical |-> t, behavioral |-> b, communication |-> c]

\* variant of nonsensicalScores: every nonsensical answer lowers the scores
nonsensicalScoresShrinking(a) ==
    ScoreSet(Pts(Max(0, 15 - a.nonsensicalAnswers * 5)),
             Pts(Max(0, 10 - a.nonsensicalAnswers * 3)),
             Pts(Max(0, 10 - a.nonsensicalAnswers * 3)),
             Pts(Max(0, 15 - a.nonsensicalAnswers * 4)))

\* variant of nonsensicalScores: the caps are missing
nonsensicalScoresUncapped(a) ==
    ScoreSet(Pts(a.nonsensicalAnswers * 5), Pts(a.nonsensicalAnswers * 3),
             Pts(a.nonsensicalAnswers * 3), Pts(a.nonsensicalAnswers * 4))

\* regime 1: analysis.nonsensicalAnswers > 0
nonsensicalScores(a) ==
    ScoreSet(Pts(Min(15, a.nonsensicalAnswers * 5)),
             Pts(Min(10, a.nonsensicalAnswers * 3)),
             Pts(Min(10, a.nonsensicalAnswers * 3)),
             Pts(Min(15, a.nonsensicalAnswers * 4)))

\* variant of poorQualityScores: the penalty is subtracted before the cap at 100
poorQualityScoresCapLast(a) ==
    LET poorQualityPenalty == a.poorQualityAnswers * 20
        technical == Max(0, Min(a.technicalTerms * 15 - poorQualityPenalty, 100))
        behavioral ==
            Max(0, Min((a.problemSolving + a.specificExamples) * 12 - poorQualityPenalty, 100))
        communication == Max(0, Min(a.communicationQuality * 20 - poorQualityPenalty, 100))
        overall == Max(0, (technical + behavioral + communication) - Pts(poorQualityPenalty))
    IN  ScoreSet(overall, Pts(technical), Pts(behavioral), Pts(communication))

\* variant of poorQualityScores: the penalty is subtracted without the floor at 0
poorQualityScoresNoFloor(a) ==
    LET poorQualityPenalty == a.poorQualityAnswers * 20
        technical == Min(a.technicalTerms * 15, 100) - poorQualityPenalty
        behavioral ==
            Min((a.problemSolving + a.specificExamples) * 12, 100) - poorQualityPenalty
        communication == Min(a.communicationQuality * 20, 100) - poorQualityPenalty
        overall == (technical + behavioral + communication) - Pts(poorQualityPenalty)
    IN  ScoreSet(overall, Pts(technical), Pts(behavioral), Pts(communication))

\* regime 2: analysis.poorQualityAnswers > 0
poorQualityScores(a) ==
    LET poorQualityPenalty == a.poorQualityAnswers * 20
        technical ==
            Max(0, (IF a.technicalTerms > 0
                    THEN Min(a.technicalTerms * 15, 100) ELSE 0) - poorQualityPenalty)
        behavioral ==
            Max(0, (IF a.problemSolving > 0 \/ a.specificExamples > 0
                    THEN Min((a.problemSolving + a.specificExamples) * 12, 100)
                    ELSE 0) - poorQualityPenalty)
        communication ==
            Max(0, (IF a.communicationQuality > 0
                    THEN Min(a.communicationQuality * 20, 100) ELSE 0) - poorQualityPenalty)
        \* Math.max(0, (technical + behavioral + communication) / 3 - poorQualityPenalty)
        overall == Max(0, (technical + behavioral + communication) - Pts(poorQualityPenalty))
    IN  ScoreSet(overall, Pts(technical), Pts(behavioral), Pts(communication))

\* variant of meaningfulScores: the technical weight of the poor-quality regime
meaningfulScoresLowWeight(a) ==
    LET technical == Min(a.technicalTerms * 15, 100)
        behavioral == Min((a.problemSolving + a.specificExamples) * 15, 100)
        communication == Min(a.communicationQuality * 25, 100)
    IN  ScoreSet(technical + behavioral + communication, Pts(technical),
                 Pts(behavioral), Pts(communication))

\* variant of meaningfulScores: overall counts the technical score twice
meaningfulScoresWeighted(a) ==
    LET technical == Min(a.technicalTerms * 20, 100)
        behavioral == Min((a.problemSolving + a.specificExamples) * 15, 100)
        communication == Min(a.communicationQuality * 25, 100)
    IN  ScoreSet(Min(Pts(100), 2 * technical + behavioral + communication),
                 Pts(technical), Pts(behavioral), Pts(communication))

\* regime 3 and the final clamp
meaningfulScores(a) ==
    LET has == a.meaningfulAnswers > 0
        technical ==
            IF has /\ a.technicalTerms > 0 THEN Min(a.technicalTerms * 20, 100) ELSE 0
        behavioral ==
            IF has /\ (a.problemSolving > 0 \/ a.specificExamples > 0)
            THEN Min((a.problemSolving + a.specificExamples) * 15, 100) ELSE 0
        communication ==
            IF has /\ a.communicationQuality > 0
            THEN Min(a.communicationQuality * 25, 100) ELSE 0
        \* (technical + behavioral + communication) / 3
        overall == IF has THEN technical + behavioral + communication ELSE 0
        clamp(x) == Max(0, Min(Pts(100), x))
    IN  ScoreSet(clamp(overall), clamp(Pts(technical)), clamp(Pts(behavioral)),
                 clamp(Pts(communication)))

\* variant of calculateScores: the poor-quality regime is tested first
calculateScoresPoorFirst(a) ==
    IF a.poorQualityAnswers > 0 THEN poorQualityScores(a)
    ELSE IF a.nonsensicalAnswers > 0 THEN nonsensicalScores(a)
    ELSE meaningfulScores(a)

calculateScores(a) ==
    IF a.nonsensicalAnswers > 0 THEN nonsensicalScores(a)
    ELSE IF a.poorQualityAnswers > 0 THEN poorQualityScores(a)
    ELSE meaningfulScores(a)

\* Math.round of a non-negative number of thirds: halves round up
MathRound(x) == (2 * x + Thirds) \div (2 * Thirds)

(***************************************************************************)
(* Feedback generator                                                      *)
(***************************************************************************)
AverageBelow(r, n) == r.den > 0 /\ r.num < n * r.den

When(cond, items) == IF cond THEN items ELSE <<>>

\* variant of OrDefault: the list is returned as it is, without the defaults
OrDefaultNever(items, default) == items

OrDefault(items, default) == IF items = <<>> THEN default ELSE items

generateFeedback(a, job) ==
    LET strengths ==
            When(a.experienceMentions > 0,
                 <<"Demonstrated relevant experience and background">>)
            \o When(a.problemSolving > 0,
                 <<"Showed problem-solving abilities and critical thinking">>)
            \o When(a.specificExamples > 0,
                 <<"Provided specific examples and concrete situations">>)
            \o When(a.communicationQuality > 0,
                 <<"Good communication skills and clarity in responses">>)
            \o When(a.technicalTerms > 0,
                 <<"Demonstrated technical knowledge and expertise">>)
        weaknesses ==
            When(AverageBelow(a.averageLength, 50),
                 <<"Could provide more detailed and comprehensive answers">>)
            \o When(a.specificExamples = 0,
                 <<"Consider using more specific examples and concrete situations">>)
            \o When(a.problemSolving = 0,
                 <<"Could demonstrate more problem-solving scenarios">>)
            \o When(a.technicalTerms = 0
                    /\ includes(toLowerCase(job.title), "technical"),
                 <<"Could elaborate more on technical skills and knowledge">>)
        suggestions ==
            <<"Practice common interview questions regularly",
              "Prepare specific examples for your experience",
              "Use the STAR method (Situation, Task, Action, Result)",
              "Research the company and role thoroughly",
              "Practice speaking clearly and confidently">>
            \o When(AverageBelow(a.averageLength, 50),
                 <<"Practice giving more detailed responses">>)
            \o When(a.specificExamples = 0,
                 <<"Prepare specific examples for common interview questions">>)
    IN  [strengths |-> OrDefault(strengths,
            <<"Good communication skills", "Demonstrated relevant experience",
              "Provided specific examples">>),
         weaknesses |-> OrDefault(weaknesses,
            <<"Could provide more detailed technical explanations",
              "Consider using more specific metrics in answers",
              "Practice STAR method for behavioral questions">>),
         suggestions |-> suggestions]

\* s.split(' ').length
splitSpaceCount(s) == Cardinality({i \in 1..Len(s) : CharAt(s, i) = " "}) + 1

\* variant of findAnswer: the answer of question index is the one at that position
findAnswerByPosition(as, index) == IF index + 1 <= Len(as) THEN index + 1 ELSE 0

\* answers.find(ans => ans.questionIndex === index): its position, 0 for undefined
findAnswer(as, index) ==
    LET hits == {k \in 1..Len(as) : as[k].questionIndex = index}
    IN  IF hits = {} THEN 0 ELSE SetMin(hits)

Clause(cond, sentence) == IF cond THEN sentence ELSE ""

\* the body of the forEach callback of generateDetailedFeedback for one answered question
questionFeedback(question, answer, job) ==
    LET answerText == toLowerCase(answer.answer)
        wordCount == splitSpaceCount(answer.answer)
        questionType == IF question.type \in {NoValue, ""} THEN "General" ELSE question.type
        lowerType == toLowerCase(questionType)
        byType ==
            IF includes(lowerType, "technical")
            THEN (IF includesAny(answerText, {"experience", "worked", "developed"})
                  THEN "Good use of specific experience and examples. "
                  ELSE "Consider providing more specific technical examples from your experience. ")
                 \o Clause(wordCount < 30,
                      "Could elaborate more on technical details and implementation. ")
            ELSE IF includes(lowerType, "behavioral")
            THEN (IF includesAny(answerText, {"situation", "task", "action", "result"})
                  THEN "Excellent use of STAR method for behavioral questions. "
                  ELSE "Consider using the STAR method (Situation, Task, Action, Result) for better structure. ")
                 \o Clause(wordCount < 40,
                      "Could provide more detailed examples and context. ")
            ELSE IF wordCount < 20
                 THEN "Consider providing more comprehensive answers with specific examples. "
                 ELSE IF wordCount > 100
                      THEN "Good detailed response, but ensure you stay focused on the key points. "
                      ELSE "Well-structured response with good detail. "
        communication ==
            IF wordCount >= 30 /\ wordCount <= 80
            THEN "Good communication skills demonstrated. "
            ELSE Clause(wordCount < 30, "Consider expanding your answer for better clarity. ")
        relevance ==
            Clause(\/ includes(answerText, toLowerCase(job.title))
                   \/ includes(answerText, toLowerCase(job.company))
                   \/ includesAny(answerText, {"relevant", "applicable"}),
                   "Good relevance to the position and company. ")
        feedback == byType \o communication \o relevance
    IN  IF trim(feedback) = ""
        THEN "Good response. Consider adding more specific examples to strengthen your answer."
        ELSE trim(feedback)

JobPool ==
    {[title |-> "Software Engineer", company |-> "Acme", requirements |-> "React"],
     [title |-> "Technical Lead", company |-> "Initech", requirements |-> ""]}

\* questions as the question route returns them: {id, text, category}, no type
BasicQuestionList ==
    <<[id |-> 1, text |-> "Tell me about yourself and your professional background.",
       category |-> "General", type |-> NoValue],
      [id |-> 2, text |-> "What are your greatest strengths and how do they apply to this role?",
       category |-> "Behavioral", type |-> NoValue]>>

QuestionPool == {BasicQuestionList[i] : i \in 1..Len(BasicQuestionList)}

\* questionFeedback on every question, answer text and job drawn, evaluated once
FeedbackTable ==
    [q \in QuestionPool, t \in AnswerPool, j \in JobPool |->
        questionFeedback(q, [answer |-> t], j)]

NoAnswerFeedback ==
    "No answer provided. Consider preparing responses for common interview questions."

\* detailedFeedback["question" + i] is element i of the result
generateDetailedFeedback(qs, as, job) ==
    [i \in 1..Len(qs) |->
        LET k == findAnswer(as, i - 1)
        IN  IF k = 0 THEN NoAnswerFeedback
            ELSE FeedbackTable[qs[i], as[k].answer, job]]

\* the return statement of generateSmartAnalysis
assembleAnalysis(qs, as, job, answerAnalysis, sc) ==
    LET feedback == generateFeedback(answerAnalysis, job)
    IN  [overallScore |-> MathRound(sc.overall),
         technicalScore |-> MathRound(sc.technical),
         behavioralScore |-> MathRound(sc.behavioral),
         communicationScore |-> MathRound(sc.communication),
         strengths |-> feedback.strengths,
         weaknesses |-> feedback.weaknesses,
         suggestions |-> feedback.suggestions,
         detailedFeedback |-> generateDetailedFeedback(qs, as, job)]

generateSmartAnalysis(qs, as, job) ==
    LET answerAnalysis == analyzeAnswers(as)
    IN  assembleAnalysis(qs, as, job, answerAnalysis, calculateScores(answerAnalysis))

(***************************************************************************)
(* Inputs of the scorer                                                    *)
(***************************************************************************)
MaxPrefix == 2
MaxRepeat == 5

ReactDashboardAnswer ==
    "I developed a React dashboard at my last job handling 10k daily users, solved a caching bug that cut load time by half, and collaborated daily with a cross-functional team."

Repeat(x, n) == [i \in 1..n |-> x]

RECURSIVE SeqsUpTo(_, _)
SeqsUpTo(S, n) ==
    IF n = 0 THEN {<<>>}
    ELSE LET shorter == SeqsUpTo(S, n - 1)
         IN  shorter \cup {Append(q, x) : q \in {p \in shorter : Len(p) = n - 1}, x \in S}

\* The batches drawn: every sequence of up to MaxPrefix pool texts, followed by
\* up to MaxRepeat copies of one pool text (long batches reach the 100 caps).
AnswerTexts ==
    {p \o Repeat(x, n) : p \in SeqsUpTo(AnswerPool, MaxPrefix),
                          x \in AnswerPool, n \in 0..MaxRepeat}

\* answers as the client posts them: the i-th answer belongs to question i - 1
AnswerBatch(texts) ==
    [i \in 1..Len(texts) |-> [questionIndex |-> i - 1, answer |-> texts[i]]]

\* questionIndex of an answer that has no such field: undefined === index is
\* false for every index
NoIndex == -1

\* answers as the interview page stores and posts them: {questionId, answer,
\* timestamp}; the scorer reads answer and questionIndex only
PageBatch(texts) ==
    [i \in 1..Len(texts) |-> [questionIndex |-> NoIndex, answer |-> texts[i]]]

PageTexts == SeqsUpTo(AnswerPool, MaxPrefix)

(***************************************************************************)
(* The scorer as a program: generateSmartAnalysis step by step             *)
(***************************************************************************)
\* The parts of the state a specification does not exercise stay as they are here.
ScorerIdle ==
    /\ questions = <<>> /\ answers = <<>> /\ jobDetails = NoValue
    /\ analysis = NoValue /\ scores = NoValue /\ smart = NoValue /\ spc = "idle"

QuestionsIdle ==
    genJob = NoValue /\ genResume = NoValue /\ genQuestions = NoValue /\ gpc = "idle"

RoutesIdle == apiKey = FALSE /\ reqs = <<>>

ParseIdle == resumeText = "" /\ fault = 0 /\ result = NoValue /\ ppc = "idle"

ReconcileIdle ==
    replyText = NoValue /\ replyReader = "none" /\ replyQuestions = NoValue /\ rpc = "idle"

EnginesIdle == calls = <<>>

FeedbackIdle ==
    /\ fbAnalysis = NoValue /\ fbJob = NoValue /\ fbScores = NoValue
    /\ fbFeedback = NoValue /\ fpc = "idle"

SaveIdle ==
    /\ saveBody = NoValue /\ stored = <<>> /\ saveResponse = NoValue
    /\ dbUp = FALSE /\ svpc = "idle"

ScorerInit ==
    /\ answers \in {AnswerBatch(t) : t \in AnswerTexts} \cup {PageBatch(t) : t \in PageTexts}
    /\ jobDetails \in JobPool
    /\ questions = BasicQuestionList
    /\ analysis = NoValue
    /\ scores = NoValue
    /\ smart = NoValue
    /\ spc = "analyze"
    /\ QuestionsIdle /\ RoutesIdle /\ ParseIdle /\ ReconcileIdle /\ EnginesIdle /\ FeedbackIdle /\ SaveIdle

AnalyzeStep ==
    /\ spc = "analyze"
    /\ analysis' = analyzeAnswers(answers)
    /\ spc' = "score"
    /\ UNCHANGED <<questions, answers, jobDetails, scores, smart>>
    /\ UNCHANGED <<questionVars, routeVars, parseVars, reconcileVars, engineVars, feedbackVars, saveVars>>

ScoreStep ==
    /\ spc = "score"
    /\ scores' = calculateScores(analysis)
    /\ spc' = "assemble"
    /\ UNCHANGED <<questions, answers, jobDetails, analysis, smart>>
    /\ UNCHANGED <<questionVars, routeVars, parseVars, reconcileVars, engineVars, feedbackVars, saveVars>>

AssembleStep ==
    /\ spc = "assemble"
    /\ smart' = assembleAnalysis(questions, answers, jobDetails, analysis, scores)
    /\ spc' = "done"
    /\ UNCHANGED <<questions, answers, jobDetails, analysis, scores>>
    /\ UNCHANGED <<questionVars, routeVars, parseVars, reconcileVars, engineVars, feedbackVars, saveVars>>

ScorerNext == AnalyzeStep \/ ScoreStep \/ AssembleStep

SpecScorer == ScorerInit /\ [][ScorerNext]_vars

(***************************************************************************)
(* Reconciliation of a generative backend's text into an analysis          *)
(* (extractAnalysisFromGenAI, extractAnalysisFromAI, extractAnalysisManually).*)
(*                                                                         *)
(* A backend text is represented by what the code's matchers find in it:   *)
(*   specific  JSON.parse of the match of /\{\s*"overallScore"[\s\S]*?\}/  *)
(*   fixed     JSON.parse of that match after the repair replacements      *)
(*   broad     JSON.parse of the match of /\{[\s\S]*\}/                    *)
(*   manual    the fields the regular expressions of                       *)
(*             extractAnalysisManually capture                             *)
(* each of the first three being "none" (no match), "bad" (JSON.parse      *)
(* throws) or "ok" with the parsed object.  An object lists the fields it  *)
(* defines in has; a field outside has is undefined.                       *)
(***************************************************************************)
ScoreFields == {"overallScore", "technicalScore", "behavioralScore", "communicationScore"}
ListFields == {"strengths", "weaknesses", "suggestions"}

Obj(has, o, t, b, c, lists) ==
    [has |-> has, overallScore |-> o, technicalScore |-> t, behavioralScore |-> b,
     communicationScore |-> c,
     strengths |-> IF "strengths" \in has THEN lists ELSE <<>>,
     weaknesses |-> IF "weaknesses" \in has THEN lists ELSE <<>>,
     suggestions |-> IF "suggestions" \in has THEN lists ELSE <<>>,
     detailedFeedback |-> <<>>]

NoObj == Obj({}, 0, 0, 0, 0, <<>>)

Parsed(kind, obj) == [kind |-> kind, obj |-> obj]
NoMatch == Parsed("none", NoObj)
BadJson == Parsed("bad", NoObj)

BackendText(name, specific, fixed, broad, manual) ==
    [name |-> name, specific |-> specific, fixed |-> fixed, broad |-> broad,
     manual |-> manual]

\* analysis.f = analysis.f || default, for the three lists and detailedFeedback
withDefaults(obj) ==
    [obj EXCEPT
        !.has = @ \cup ListFields \cup {"detailedFeedback"},
        !.strengths = IF "strengths" \in obj.has THEN @ ELSE <<"Good communication skills">>,
        !.weaknesses = IF "weaknesses" \in obj.has THEN @
                       ELSE <<"Could provide more detailed responses">>,
        !.suggestions = IF "suggestions" \in obj.has THEN @
                        ELSE <<"Practice more interview questions">>]

\* extractAnalysisManually: a Parsed value, "none" standing for null
extractAnalysisManually(text) ==
    IF "overallScore" \in text.manual.has \/ "technicalScore" \in text.manual.has
    THEN Parsed("ok", withDefaults(text.manual))
    ELSE NoMatch

\* Method 1 of extractAnalysisFromGenAI / extractAnalysisFromAI
methodOne(text) ==
    IF text.specific.kind # "none"
    THEN IF text.specific.kind = "ok" THEN text.specific
         ELSE IF text.fixed.kind = "ok" THEN text.fixed
         ELSE extractAnalysisManually(text)
    ELSE IF text.broad.kind = "none" THEN NoMatch
         ELSE IF text.broad.kind = "ok" THEN text.broad
         ELSE extractAnalysisManually(text)

\* variant of hasRequiredFields: the test of extractAnalysisManually (either score)
hasEitherScore(obj) == "overallScore" \in obj.has \/ "technicalScore" \in obj.has

\* the validation of the four required fields
hasRequiredFields(obj) == ScoreFields \subseteq obj.has

\* variant of extractAnalysisFromGenAI: the four scores are brought into 0..100
extractAnalysisFromGenAIClamped(text) ==
    LET first == methodOne(text)
        found == IF first.kind = "ok" THEN first ELSE extractAnalysisManually(text)
        clamp(x) == Max(0, Min(100, x))
    IN  IF found.kind = "ok" /\ hasRequiredFields(found.obj)
        THEN Parsed("ok", [withDefaults(found.obj) EXCEPT
                              !.overallScore = clamp(@), !.technicalScore = clamp(@),
                              !.behavioralScore = clamp(@), !.communicationScore = clamp(@)])
        ELSE NoMatch

\* extractAnalysisFromGenAI(generatedText, ...): "none" stands for null
extractAnalysisFromGenAI(text) ==
    LET first == methodOne(text)
        found == IF first.kind = "ok" THEN first ELSE extractAnalysisManually(text)
    IN  IF found.kind = "ok" /\ hasRequiredFields(found.obj)
        THEN Parsed("ok", withDefaults(found.obj))
        ELSE NoMatch

\* data.response || ''
EmptyText == BackendText("", NoMatch, BadJson, NoMatch, NoObj)

\* extractAnalysisFromAI(data, ...): data is [hasResponse, response]
extractAnalysisFromAI(data) ==
    extractAnalysisFromGenAI(IF data.hasResponse THEN data.response ELSE EmptyText)

FourScores(o, t, b, c) == Obj(ScoreFields \cup ListFields, o, t, b, c, <<"Clear">>)

\* The texts a generative backend is taken to answer an analysis prompt with.
\*  flat:       {"overallScore": 75, ..., "suggestions": ["Practice"]}
\*  nested:     the same with "detailedFeedback": {"question1": "Good"}; the
\*              non-greedy match stops at the inner brace
\*  outOfRange: {"overallScore": 150, "technicalScore": 80, "behavioralScore": 70,
\*               "communicationScore": 75}
\*  trailing:   four scores and a trailing comma, which the repair removes
\*  partial:    {"overallScore": 70, "technicalScore": 60}
\*  prose:      Overall: 70. Technical: 65. The candidate did fine.
\*  otherJson:  {"score": 70, "comment": "fine"}
\*  refusal:    Sorry, I cannot help with that.
AnalysisTexts ==
    {BackendText("flat", Parsed("ok", FourScores(75, 80, 70, 75)), BadJson, NoMatch,
                 FourScores(75, 80, 70, 75)),
     BackendText("nested", BadJson, BadJson, NoMatch, FourScores(75, 80, 70, 75)),
     BackendText("outOfRange", Parsed("ok", Obj(ScoreFields, 150, 80, 70, 75, <<>>)),
                 BadJson, NoMatch, Obj(ScoreFields, 150, 80, 70, 75, <<>>)),
     BackendText("trailing", BadJson, Parsed("ok", Obj(ScoreFields, 75, 80, 70, 75, <<>>)),
                 NoMatch, Obj(ScoreFields, 75, 80, 70, 75, <<>>)),
     BackendText("partial",
                 Parsed("ok", Obj({"overallScore", "technicalScore"}, 70, 60, 0, 0, <<>>)),
                 BadJson, NoMatch, Obj({"overallScore", "technicalScore"}, 70, 60, 0, 0, <<>>)),
     BackendText("prose", NoMatch, BadJson, NoMatch,
                 Obj({"overallScore", "technicalScore"}, 70, 65, 0, 0, <<>>)),
     BackendText("otherJson", NoMatch, BadJson, Parsed("ok", NoObj), NoObj),
     BackendText("refusal", NoMatch, BadJson, NoMatch, NoObj)}

(***************************************************************************)
(* The deterministic question generator (generateSmartQuestions,           *)
(* getRoleSpecificQuestions, getBasicQuestions).                           *)
(*                                                                         *)
(* A resume is a record of its skills, projects and experience; present is *)
(* FALSE for a null resume.  An absent name, title or description is "",   *)
(* which the code's || and && treat as they treat undefined.               *)
(***************************************************************************)
Question(id, text, category) == [id |-> id, text |-> text, category |-> category]

Resume(skills, projects, experience) ==
    [present |-> TRUE, skills |-> skills, projects |-> projects, experience |-> experience]

NoResume == [present |-> FALSE, skills |-> <<>>, projects |-> <<>>, experience |-> <<>>]

RECURSIVE join(_, _)
join(items, sep) ==
    IF items = <<>> THEN ""
    ELSE IF Len(items) = 1 THEN items[1]
    ELSE items[1] \o sep \o join(Tail(items), sep)

slice(items, n) == SubSeq(items, 1, Min(n, Len(items)))

\* x || fallback on strings
OrElse(x, fallback) == IF x = "" THEN fallback ELSE x

techSkillNames == {"javascript", "python", "java", "react", "node.js", "typescript"}

isTechSkill(skill) == toLowerCase(skill) \in techSkillNames

isDataProject(proj) ==
    /\ proj.description # ""
    /\ includesAny(toLowerCase(proj.description), {"data", "analysis"})

isLeadershipRole(exp) ==
    /\ exp.title # ""
    /\ includesAny(toLowerCase(exp.title), {"lead", "manager"})

\* projects.find(...) and experience.find(...): the index found, 0 for undefined
findDataProject(projects) ==
    LET hits == {i \in 1..Len(projects) : isDataProject(projects[i])}
    IN  IF hits = {} THEN 0 ELSE SetMin(hits)

findLeadershipRole(experience) ==
    LET hits == {i \in 1..Len(experience) : isLeadershipRole(experience[i])}
    IN  IF hits = {} THEN 0 ELSE SetMin(hits)

softwareQuestions(resumeContent) ==
    <<IF resumeContent.present /\ Len(resumeContent.projects) > 0
      THEN Question(6, "I noticed you worked on "
                       \o OrElse(resumeContent.projects[1].name, "a software project")
                       \o ". Can you walk me through the technical challenges you faced and how you solved them?",
                    "Technical")
      ELSE Question(6, "Can you walk me through a complex coding problem you solved recently?",
                    "Technical"),
      IF resumeContent.present
         /\ \E i \in 1..Len(resumeContent.skills) : isTechSkill(resumeContent.skills[i])
      THEN Question(7, "You mention experience with "
                       \o join(slice(SelectSeq(resumeContent.skills, isTechSkill), 2), " and ")
                       \o ". How do you stay updated with these technologies and what recent changes have excited you?",
                    "Technical")
      ELSE Question(7, "How do you stay updated with the latest technologies and programming languages?",
                    "Technical")>>

dataQuestions(resumeContent) ==
    LET found == findDataProject(resumeContent.projects)
    IN  <<IF resumeContent.present /\ found # 0
          THEN Question(8, "Tell me about "
                           \o OrElse(resumeContent.projects[found].name, "your data project")
                           \o " and the insights you discovered during your analysis.",
                        "Technical")
          ELSE Question(8, "Describe a data analysis project you worked on and the insights you discovered.",
                        "Technical"),
          Question(9, "How do you handle large datasets and ensure data quality?", "Technical")>>

leadershipQuestions(resumeContent) ==
    LET found == findLeadershipRole(resumeContent.experience)
    IN  <<IF resumeContent.present /\ found # 0
          THEN Question(10, "In your role as "
                            \o OrElse(resumeContent.experience[found].title, "a team lead")
                            \o ", tell me about a time when you had to lead your team through a difficult project.",
                        "Leadership")
          ELSE Question(10, "Tell me about a time when you had to lead a team through a difficult project.",
                        "Leadership"),
          Question(11, "How do you motivate team members and handle underperforming employees?",
                   "Leadership")>>

getRoleSpecificQuestions(title, requirements, resumeContent) ==
    LET titleLower == toLowerCase(title)
    IN  (IF includesAny(titleLower, {"software", "developer", "programmer"})
         THEN softwareQuestions(resumeContent) ELSE <<>>)
        \o (IF includesAny(titleLower, {"data", "analyst", "scientist"})
            THEN dataQuestions(resumeContent) ELSE <<>>)
        \o (IF includesAny(titleLower, {"manager", "lead", "director"})
            THEN leadershipQuestions(resumeContent) ELSE <<>>)

AgnosticProjectQuestion ==
    "What challenges have you faced in your previous projects and how did you overcome them?"

baseQuestions(job, resumeContent) ==
    <<Question(1,
        IF resumeContent.present /\ Len(resumeContent.skills) > 0
        THEN "I see you have experience with " \o join(slice(resumeContent.skills, 3), ", ")
             \o ". Can you elaborate on how you've used these skills in your previous work?"
        ELSE "Can you tell me about your experience with the technologies and skills required for the "
             \o job.title \o " position?",
        "Technical"),
      Question(2,
        IF resumeContent.present /\ Len(resumeContent.projects) > 0
        THEN "Tell me about " \o OrElse(resumeContent.projects[1].name, "one of your projects")
             \o ". What challenges did you face and how did you overcome them?"
        ELSE AgnosticProjectQuestion,
        "Behavioral"),
      Question(3, "Why are you interested in joining " \o job.company
                  \o " and what excites you about this " \o job.title \o " role?",
               "Motivation"),
      Question(4,
        IF resumeContent.present /\ Len(resumeContent.experience) > 0
        THEN "In your role as " \o OrElse(resumeContent.experience[1].title, "your previous position")
             \o ", describe a situation where you had to work with a difficult team member or resolve a conflict."
        ELSE "Describe a situation where you had to work with a difficult team member or resolve a conflict.",
        "Behavioral"),
      Question(5, "What are your career goals for the next 3-5 years and how does this position align with them?",
               "Career")>>

MaxQuestions == 5

\* variant of generateSmartQuestions: the role-specific questions come first
generateSmartQuestionsRoleFirst(job, resumeContent) ==
    slice(getRoleSpecificQuestions(job.title, job.requirements, resumeContent)
            \o baseQuestions(job, resumeContent),
          MaxQuestions)

\* variant of generateSmartQuestions: the role-specific questions are not cut off
generateSmartQuestionsUncut(job, resumeContent) ==
    baseQuestions(job, resumeContent)
        \o getRoleSpecificQuestions(job.title, job.requirements, resumeContent)

generateSmartQuestions(job, resumeContent) ==
    slice(baseQuestions(job, resumeContent)
            \o getRoleSpecificQuestions(job.title, job.requirements, resumeContent),
          MaxQuestions)

getBasicQuestions ==
    <<Question(1, "Tell me about yourself and your professional background.", "General"),
      Question(2, "What are your greatest strengths and how do they apply to this role?",
               "Behavioral"),
      Question(3, "Describe a challenging situation you faced at work and how you handled it.",
               "Behavioral"),
      Question(4, "Why are you interested in this position and our company?", "Motivation"),
      Question(5, "Where do you see yourself in 5 years?", "Career")>>

(***************************************************************************)
(* Reconciliation of a generative backend's text into questions            *)
(* (extractQuestionsFromGenAI, extractQuestionsFromAI,                     *)
(* getCategoryFromQuestion).                                               *)
(*                                                                         *)
(* A backend text is represented by what the code's matchers find in it:   *)
(*   array     JSON.parse of the match of /\[[\s\S]*\]/ : "none", "bad"    *)
(*             (JSON.parse throws) or "ok" with the elements               *)
(*   objects   per match of /\{[^}]+\}/g, its JSON.parse or its raw text   *)
(*   numbered  the matches of /\d+\.\s*([^?]+\?)/g                         *)
(* An element has the fields id, text, question and category, 0 and ""     *)
(* standing for an absent field; isNull marks a JSON null.                 *)
(***************************************************************************)
getCategoryFromQuestion(question) ==
    LET q == toLowerCase(question)
    IN  IF includesAny(q, {"technical", "technology", "coding", "programming"}) THEN "Technical"
        ELSE IF includesAny(q, {"behavior", "situation", "challenge", "conflict"}) THEN "Behavioral"
        ELSE IF includesAny(q, {"motivation", "interest", "why"}) THEN "Motivation"
        ELSE IF includesAny(q, {"team", "collaboration", "work with"}) THEN "Teamwork"
        ELSE "General"

Item(id, txt, question, category) ==
    [isNull |-> FALSE, id |-> id, text |-> txt, question |-> question, category |-> category]

NullItem == [isNull |-> TRUE, id |-> 0, text |-> "", question |-> "", category |-> ""]

ParsedArray(kind, items) == [kind |-> kind, items |-> items]

ObjectMatch(ok, obj, raw) == [ok |-> ok, obj |-> obj, raw |-> raw]

QuestionText(name, array, objects, numbered) ==
    [name |-> name, array |-> array, objects |-> objects, numbered |-> numbered]

\* q.text || q.question || '' in extractQuestionsFromGenAI, q.text || '' in
\* extractQuestionsFromAI
textOf(q, readsQuestion) == IF readsQuestion THEN OrElse(q.text, q.question) ELSE q.text

toQuestion(q, index, readsQuestion) ==
    Question(IF q.id # 0 THEN q.id ELSE index,
             textOf(q, readsQuestion),
             OrElse(q.category, getCategoryFromQuestion(textOf(q, readsQuestion))))

fromObjectMatch(m, index, readsQuestion) ==
    IF m.ok THEN toQuestion(m.obj, index, readsQuestion)
    ELSE Question(index, m.raw, getCategoryFromQuestion(m.raw))

MinQuestionLength == 10

isUsableQuestion(q) == q.text # "" /\ Len(q.text) > MinQuestionLength

\* match.replace(/^\d+\.\s*/, '')
stripNumbering(match) ==
    LET digits == SetMax({d \in 0..Len(match) : \A i \in 1..d : IsDigit(CharAt(match, i))})
        dot == IF digits > 0 /\ digits < Len(match) /\ CharAt(match, digits + 1) = "."
               THEN digits + 1 ELSE 0
        spaces == SetMax({e \in dot..Len(match) : \A i \in (dot + 1)..e : IsSpace(CharAt(match, i))})
    IN  IF dot = 0 THEN match ELSE SubSeq(match, spaces + 1, Len(match))

fromNumbered(matches) ==
    [i \in 1..Min(MaxQuestions, Len(matches)) |->
        Question(i, stripNumbering(matches[i]), getCategoryFromQuestion(matches[i]))]

fromObjects(objects, readsQuestion) ==
    SelectSeq([i \in 1..Min(MaxQuestions, Len(objects)) |->
                  fromObjectMatch(objects[i], i, readsQuestion)],
              isUsableQuestion)

\* the strategies after the JSON array
laterStrategies(txt, readsQuestion) ==
    IF fromObjects(txt.objects, readsQuestion) # <<>>
    THEN fromObjects(txt.objects, readsQuestion)
    ELSE fromNumbered(txt.numbered)

\* the body shared by extractQuestionsFromGenAI and extractQuestionsFromAI;
\* an exception inside it is caught and [] returned
extractQuestions(txt, readsQuestion) ==
    IF txt.array.kind = "bad" THEN <<>>
    ELSE IF txt.array.kind = "ok" /\ Len(txt.array.items) > 0
    THEN IF \E i \in 1..Len(txt.array.items) : txt.array.items[i].isNull
         THEN <<>>
         ELSE [i \in 1..Len(txt.array.items) |-> toQuestion(txt.array.items[i], i, readsQuestion)]
    ELSE laterStrategies(txt, readsQuestion)

extractQuestionsFromGenAI(generatedText) == extractQuestions(generatedText, TRUE)

NoQuestionText == QuestionText("", ParsedArray("none", <<>>), <<>>, <<>>)

\* data is [hasResponse, response]; data.response || ''
extractQuestionsFromAI(data) ==
    extractQuestions(IF data.hasResponse THEN data.response ELSE NoQuestionText, FALSE)

DebugItem ==
    Item(1, "How do you approach debugging a production issue?", "", "Technical")
TeamItem == Item(0, "", "Why do you want to work with our team?", "")
ChallengeItem == Item(1, "Describe a technical challenge you solved?", "", "")
ConflictItem == Item(7, "Tell me about a conflict you resolved?", "", "")
ShortItem == Item(0, "Too short", "", "")
EmptyItem == Item(0, "", "", "")

\* The texts a generative backend is taken to answer a question prompt with.
\*  array:      [{"id": 1, "text": "How do you approach ...?", "category":
\*              "Technical"}, {"question": "Why do you want to work with our team?"}]
\*  fenced:     Here are the questions [draft]: [{"id":1,"text":"Describe a
\*              technical challenge you solved?"}]
\*  objects:    {"id": 7, "text": "Tell me about a conflict you resolved?"}
\*              {"text": "Too short"} {first: describe your coding style}
\*  numbered:   1. What is your greatest strength? 2. Why do you want this job?
\*  emptyArray: []
\*  nullItem:   [null]
\*  strings:    ["What is your greatest strength?"]
\*  refusal:    Sorry, I cannot help with that.
QuestionTexts ==
    {QuestionText("array", ParsedArray("ok", <<DebugItem, TeamItem>>),
                  <<ObjectMatch(TRUE, DebugItem, ""), ObjectMatch(TRUE, TeamItem, "")>>, <<>>),
     QuestionText("fenced", ParsedArray("bad", <<>>),
                  <<ObjectMatch(TRUE, ChallengeItem, "")>>, <<>>),
     QuestionText("objects", ParsedArray("none", <<>>),
                  <<ObjectMatch(TRUE, ConflictItem, ""), ObjectMatch(TRUE, ShortItem, ""),
                    ObjectMatch(FALSE, EmptyItem, "{first: describe your coding style}")>>,
                  <<>>),
     QuestionText("numbered", ParsedArray("none", <<>>), <<>>,
                  <<"1. What is your greatest strength?", "2. Why do you want this job?">>),
     QuestionText("emptyArray", ParsedArray("ok", <<>>), <<>>, <<>>),
     QuestionText("nullItem", ParsedArray("ok", <<NullItem>>), <<>>, <<>>),
     QuestionText("strings", ParsedArray("ok", <<EmptyItem>>), <<>>, <<>>),
     QuestionText("refusal", ParsedArray("none", <<>>), <<>>, <<>>)}

(***************************************************************************)
(* The question generator as a program: one call of generateSmartQuestions *)
(***************************************************************************)
InventoryTracker == [name |-> "Inventory Tracker", description |-> "Tracks stock levels"]
SalesReport == [name |-> "Sales Report", description |-> "Analysis of weekly sales data"]
UnnamedProject == [name |-> "", description |-> "Data pipeline"]

SkillLists == {<<>>, <<"Excel">>, <<"React", "Kotlin", "Python", "SQL">>}

ProjectLists ==
    {<<>>, <<InventoryTracker>>, <<InventoryTracker, SalesReport>>, <<UnnamedProject>>}

ExperienceLists == {<<>>, <<[title |-> "Team Lead"]>>, <<[title |-> ""]>>}

ResumePool ==
    {NoResume} \cup {Resume(s, p, e) : s \in SkillLists, p \in ProjectLists, e \in ExperienceLists}

TitlePool ==
    {"Software Engineer", "Data Analyst", "Engineering Manager", "Lead Data Developer", "Nurse"}

GenJobPool == {[title |-> t, company |-> "Acme", requirements |-> "React"] : t \in TitlePool}

QuestionsInit ==
    /\ genJob \in GenJobPool
    /\ genResume \in ResumePool
    /\ genQuestions = NoValue
    /\ gpc = "call"
    /\ ScorerIdle /\ RoutesIdle /\ ParseIdle /\ ReconcileIdle /\ EnginesIdle /\ FeedbackIdle /\ SaveIdle

GenerateSmart ==
    /\ gpc = "call"
    /\ genQuestions' = generateSmartQuestions(genJob, genResume)
    /\ gpc' = "done"
    /\ UNCHANGED <<genJob, genResume>>
    /\ UNCHANGED <<scorerVars, routeVars, parseVars, reconcileVars, engineVars, feedbackVars, saveVars>>

QuestionsNext == GenerateSmart

SpecQuestions == QuestionsInit /\ [][QuestionsNext]_vars

(***************************************************************************)
(* The question reconciliation as a program: one call of                   *)
(* extractQuestionsFromGenAI or extractQuestionsFromAI on a backend text.  *)
(* A text is put together from a bracketed part, what the object pattern   *)
(* finds after it and what the numbered-list pattern finds:                *)
(*   none     no [ ... ] in the text                                       *)
(*   note     "... [see notes] ..."           JSON.parse throws            *)
(*   fenced   "[draft]: [{...challenge...}]"  JSON.parse throws            *)
(*   array    a JSON array of two question objects                         *)
(*   empty    []                                                           *)
(*   null     [null]                                                       *)
(*   strings  ["What is your greatest strength?"]                          *)
(***************************************************************************)
BracketPart(name, array, inside) == [name |-> name, array |-> array, inside |-> inside]

BracketParts ==
    {BracketPart("none", ParsedArray("none", <<>>), <<>>),
     BracketPart("note", ParsedArray("bad", <<>>), <<>>),
     BracketPart("fenced", ParsedArray("bad", <<>>), <<ObjectMatch(TRUE, ChallengeItem, "")>>),
     BracketPart("array", ParsedArray("ok", <<DebugItem, TeamItem>>),
                 <<ObjectMatch(TRUE, DebugItem, ""), ObjectMatch(TRUE, TeamItem, "")>>),
     BracketPart("empty", ParsedArray("ok", <<>>), <<>>),
     BracketPart("null", ParsedArray("ok", <<NullItem>>), <<>>),
     BracketPart("strings", ParsedArray("ok", <<EmptyItem>>), <<>>)}

\* the matches of the object pattern after the bracketed part
ObjectParts ==
    {<<>>,
     <<ObjectMatch(TRUE, ConflictItem, "")>>,
     <<ObjectMatch(TRUE, ShortItem, "")>>,
     <<ObjectMatch(TRUE, ConflictItem, ""), ObjectMatch(TRUE, ShortItem, ""),
       ObjectMatch(FALSE, EmptyItem, "{first: describe your coding style}")>>}

NumberedParts ==
    {<<>>, <<"1. What is your greatest strength?", "2. Why do you want this job?">>}

ReplyTexts ==
    {QuestionText(b.name, b.array, b.inside \o o, n) :
        b \in BracketParts, o \in ObjectParts, n \in NumberedParts}

Readers == {"genai", "ollama"}

ReconcileInit ==
    /\ replyText \in ReplyTexts
    /\ replyReader \in Readers
    /\ replyQuestions = NoValue
    /\ rpc = "call"
    /\ ScorerIdle /\ QuestionsIdle /\ RoutesIdle /\ ParseIdle /\ EnginesIdle /\ FeedbackIdle /\ SaveIdle

Reconcile ==
    /\ rpc = "call"
    /\ replyQuestions' =
         IF replyReader = "genai" THEN extractQuestionsFromGenAI(replyText)
         ELSE extractQuestionsFromAI([hasResponse |-> TRUE, response |-> replyText])
    /\ rpc' = "done"
    /\ UNCHANGED <<replyText, replyReader>>
    /\ UNCHANGED <<scorerVars, questionVars, routeVars, parseVars, engineVars, feedbackVars, saveVars>>

ReconcileNext == Reconcile

SpecReconcile == ReconcileInit /\ [][ReconcileNext]_vars

(***************************************************************************)
(* The two routes POST /api/performance/analyze and                        *)
(* POST /api/questions/generate.  A handler runs from one await to the     *)
(* next in one step; handlers of different requests interleave at the      *)
(* awaits.  Per request the model records the stages started, in order,    *)
(* with what each produced, and the responses sent.                        *)
(***************************************************************************)
Requests == {"r1", "r2"}

NewRequest ==
    [route |-> "none", body |-> NoValue, pc |-> "idle", stages |-> <<>>, responses |-> <<>>]

Stage(name, outcome, res) == [stage |-> name, outcome |-> outcome, result |-> res]

\* variant of firstStage: the primary backend is tried without looking at the key
firstStageUnconditional(key) == "primary"

\* if (GOOGLE_GENAI_API_KEY) { ...primary... } ...secondary...
firstStage(key) == IF key THEN "primary" ELSE "secondary"

began(req, name) ==
    [req EXCEPT !.stages = Append(@, Stage(name, "pending", NoValue)),
                !.pc = IF name = "primary" THEN "genai"
                       ELSE IF name = "secondary" THEN "ollama" ELSE @]

ended(req, outcome, res) ==
    [req EXCEPT !.stages[Len(req.stages)] = Stage(@.stage, outcome, res)]

\* res.json(payload) / res.status(500).json(payload), followed by return
respond(req, status, payload) ==
    [req EXCEPT !.responses = Append(@, [status |-> status, payload |-> payload]),
                !.pc = "done"]

EmptyJob == [title |-> "", company |-> "", requirements |-> ""]

\* Request bodies of /analyze.  An answer whose answer field is not a string
\* has isString FALSE; a body without jobDetails has hasJobDetails FALSE.
AnalyzeBody(qs, as, hasJob, job) ==
    [questions |-> qs, answers |-> as, hasJobDetails |-> hasJob, jobDetails |-> job]

TextAnswers(texts) ==
    [i \in 1..Len(texts) |-> [questionIndex |-> i - 1, answer |-> texts[i], isString |-> TRUE]]

SoftwareJob == CHOOSE j \in JobPool : j.title = "Software Engineer"

AnalyzeBodies ==
    {AnalyzeBody(BasicQuestionList, TextAnswers(<<ReactDashboardAnswer, "yup">>), TRUE, SoftwareJob),
     AnalyzeBody(BasicQuestionList, TextAnswers(<<"I like React">>), FALSE, EmptyJob),
     AnalyzeBody(<<>>, <<[questionIndex |-> 0, answer |-> "", isString |-> FALSE]>>, TRUE,
                 SoftwareJob)}

\* createQASection and the prompt template throw on these bodies
analyzePrologueThrows(body) ==
    \/ ~body.hasJobDetails
    \/ \E i \in 1..Len(body.questions) :
          /\ findAnswer(body.answers, i - 1) # 0
          /\ ~body.answers[findAnswer(body.answers, i - 1)].isString

\* analyzeAnswers throws on these bodies (answer.answer.toLowerCase)
smartAnalysisThrows(body) == \E i \in 1..Len(body.answers) : ~body.answers[i].isString

\* the catch block of /analyze
analyzeCatch(req) == respond(req, 200, generateSmartAnalysis(<<>>, <<>>, EmptyJob))

\* "Fallback to smart analysis" of /analyze
analyzeDeterministic(req) ==
    IF smartAnalysisThrows(req.body)
    THEN analyzeCatch(ended(began(req, "deterministic"), "threw", NoValue))
    ELSE LET smartAnalysis ==
                 generateSmartAnalysis(req.body.questions, req.body.answers, req.body.jobDetails)
         IN  respond(ended(began(req, "deterministic"), "valid", smartAnalysis), 200, smartAnalysis)

\* Request bodies of /generate.  hasJobDetails is FALSE for a body without
\* jobDetails, hasTitle FALSE for jobDetails without a title, wellFormed FALSE
\* for a parsedResume without its lists.
GenerateBody(resume, wellFormed, hasJob, hasTitle, job) ==
    [parsedResume |-> resume, wellFormed |-> wellFormed, hasJobDetails |-> hasJob,
     hasTitle |-> hasTitle, jobDetails |-> job]

AcmeJob == [title |-> "Software Engineer", company |-> "Acme", requirements |-> "React"]

TrackerResume == Resume(<<"React", "Kotlin", "Python", "SQL">>, <<InventoryTracker>>, <<>>)

GenerateBodies ==
    {GenerateBody(TrackerResume, TRUE, TRUE, TRUE, AcmeJob),
     GenerateBody(NoResume, TRUE, TRUE, TRUE, AcmeJob),
     GenerateBody(NoResume, TRUE, FALSE, FALSE, EmptyJob),
     GenerateBody(NoResume, TRUE, TRUE, FALSE, EmptyJob),
     GenerateBody(Resume(<<>>, <<>>, <<>>), FALSE, TRUE, TRUE, AcmeJob)}

\* createInterviewPrompt throws on these bodies
generatePrologueThrows(body) ==
    ~body.hasJobDetails \/ (body.parsedResume.present /\ ~body.wellFormed)

\* generateSmartQuestions throws on these bodies (title.toLowerCase)
smartQuestionsThrow(body) == ~body.hasTitle

QuestionsPayload(success, qs, source) ==
    [success |-> success, questions |-> qs, source |-> source]

\* the catch block of /generate
generateCatch(req) ==
    respond(req, 500, QuestionsPayload(FALSE, getBasicQuestions, "Basic Fallback"))

\* generateSmartQuestions on every body it returns for, evaluated once
SmartQuestionsTable ==
    [body \in {b \in GenerateBodies : ~generatePrologueThrows(b) /\ ~smartQuestionsThrow(b)} |->
        generateSmartQuestions(body.jobDetails, body.parsedResume)]

\* "Fallback to smart mock questions" of /generate
generateDeterministic(req) ==
    IF smartQuestionsThrow(req.body)
    THEN generateCatch(ended(began(req, "deterministic"), "threw", NoValue))
    ELSE LET smartQuestions == SmartQuestionsTable[req.body]
         IN  respond(ended(began(req, "deterministic"), "valid", smartQuestions), 200,
                     QuestionsPayload(TRUE, smartQuestions, "Smart Algorithm"))

\* What a call of a generative backend comes back with: the primary backend
\* throws or yields a text; the secondary (fetch) throws, answers with a
\* status that is not ok, or yields data with or without a response text.
PrimaryOutcomes(texts) ==
    {[kind |-> "throws", text |-> t] : t \in {CHOOSE t \in texts : TRUE}}
        \cup {[kind |-> "text", text |-> t] : t \in texts}

SecondaryOutcomes(texts) ==
    {[kind |-> k, text |-> t] : k \in {"throws", "notOk", "noResponse"},
                                t \in {CHOOSE t \in texts : TRUE}}
        \cup {[kind |-> "text", text |-> t] : t \in texts}

\* the two reconciliations on every text drawn, evaluated once
GenAIQuestionsTable == [t \in QuestionTexts |-> extractQuestionsFromGenAI(t)]

OllamaQuestionsTable ==
    [has \in BOOLEAN, t \in QuestionTexts |->
        extractQuestionsFromAI([hasResponse |-> has, response |-> t])]

dataOf(out) == [hasResponse |-> out.kind = "text", response |-> out.text]

\* how a stage that gave no valid result is recorded
failureOf(out) ==
    IF out.kind = "throws" THEN "threw" ELSE IF out.kind = "notOk" THEN "failed" ELSE "invalid"

RoutesInit ==
    /\ apiKey \in BOOLEAN
    /\ reqs = [r \in Requests |-> NewRequest]
    /\ ScorerIdle /\ QuestionsIdle /\ ParseIdle /\ ReconcileIdle /\ EnginesIdle /\ FeedbackIdle /\ SaveIdle

\* /analyze from its entry to its first await
AnalyzeArrives(r) ==
    /\ reqs[r].pc = "idle"
    /\ \E body \in AnalyzeBodies :
          LET req == [reqs[r] EXCEPT !.route = "analyze", !.body = body]
          IN  reqs' = [reqs EXCEPT ![r] =
                          IF analyzePrologueThrows(body) THEN analyzeCatch(req)
                          ELSE began(req, firstStage(apiKey))]
    /\ UNCHANGED <<apiKey, scorerVars, questionVars, parseVars, reconcileVars, engineVars, feedbackVars, saveVars>>

\* /analyze from the return of model.generateContent to its next await or its response
AnalyzeGenAIReturns(r) ==
    /\ reqs[r].pc = "genai"
    /\ reqs[r].route = "analyze"
    /\ \E out \in PrimaryOutcomes(AnalysisTexts) :
          LET aiAnalysis == IF out.kind = "text" THEN extractAnalysisFromGenAI(out.text)
                            ELSE NoMatch
          IN  reqs' = [reqs EXCEPT ![r] =
                          IF aiAnalysis.kind = "ok"
                          THEN respond(ended(reqs[r], "valid", aiAnalysis.obj), 200, aiAnalysis.obj)
                          ELSE began(ended(reqs[r], failureOf(out), NoValue), "secondary")]
    /\ UNCHANGED <<apiKey, scorerVars, questionVars, parseVars, reconcileVars, engineVars, feedbackVars, saveVars>>

\* variant of AnalyzeOllamaReturns: the answers to score are kept in a binding
\* of the module written before the first await, so the fallback scores the
\* body of whichever /analyze request wrote it last
AnalyzeOllamaReturnsShared(r) ==
    /\ reqs[r].pc = "ollama"
    /\ reqs[r].route = "analyze"
    /\ \E out \in SecondaryOutcomes(AnalysisTexts), o \in Requests :
          LET aiAnalysis == IF out.kind \in {"text", "noResponse"}
                            THEN extractAnalysisFromAI(dataOf(out))
                            ELSE NoMatch
              last == [ended(reqs[r], failureOf(out), NoValue) EXCEPT !.body = reqs[o].body]
          IN  /\ reqs[o].route = "analyze"
              /\ ~analyzePrologueThrows(reqs[o].body)
              /\ reqs' = [reqs EXCEPT ![r] =
                          IF aiAnalysis.kind = "ok"
                          THEN respond(ended(reqs[r], "valid", aiAnalysis.obj), 200, aiAnalysis.obj)
                          ELSE [analyzeDeterministic(last) EXCEPT !.body = reqs[r].body]]
    /\ UNCHANGED <<apiKey, scorerVars, questionVars, parseVars, reconcileVars, engineVars, feedbackVars, saveVars>>

\* /analyze from the return of fetch to its response
AnalyzeOllamaReturns(r) ==
    /\ reqs[r].pc = "ollama"
    /\ reqs[r].route = "analyze"
    /\ \E out \in SecondaryOutcomes(AnalysisTexts) :
          LET aiAnalysis == IF out.kind \in {"text", "noResponse"}
                            THEN extractAnalysisFromAI(dataOf(out))
                            ELSE NoMatch
          IN  reqs' = [reqs EXCEPT ![r] =
                          IF aiAnalysis.kind = "ok"
                          THEN respond(ended(reqs[r], "valid", aiAnalysis.obj), 200, aiAnalysis.obj)
                          ELSE analyzeDeterministic(ended(reqs[r], failureOf(out), NoValue))]
    /\ UNCHANGED <<apiKey, scorerVars, questionVars, parseVars, reconcileVars, engineVars, feedbackVars, saveVars>>

\* /generate from its entry to its first await
GenerateArrives(r) ==
    /\ reqs[r].pc = "idle"
    /\ \E body \in GenerateBodies :
          LET req == [reqs[r] EXCEPT !.route = "generate", !.body = body]
          IN  reqs' = [reqs EXCEPT ![r] =
                          IF generatePrologueThrows(body) THEN generateCatch(req)
                          ELSE began(req, firstStage(apiKey))]
    /\ UNCHANGED <<apiKey, scorerVars, questionVars, parseVars, reconcileVars, engineVars, feedbackVars, saveVars>>

\* /generate from the return of model.generateContent to its next await or its response
GenerateGenAIReturns(r) ==
    /\ reqs[r].pc = "genai"
    /\ reqs[r].route = "generate"
    /\ \E out \in PrimaryOutcomes(QuestionTexts) :
          LET aiQuestions == IF out.kind = "text" THEN GenAIQuestionsTable[out.text]
                             ELSE <<>>
          IN  reqs' = [reqs EXCEPT ![r] =
                          IF Len(aiQuestions) > 0
                          THEN respond(ended(reqs[r], "valid", aiQuestions), 200,
                                       QuestionsPayload(TRUE, aiQuestions, "Google GenAI"))
                          ELSE began(ended(reqs[r], failureOf(out), NoValue), "secondary")]
    /\ UNCHANGED <<apiKey, scorerVars, questionVars, parseVars, reconcileVars, engineVars, feedbackVars, saveVars>>

\* /generate from the return of fetch to its response
GenerateOllamaReturns(r) ==
    /\ reqs[r].pc = "ollama"
    /\ reqs[r].route = "generate"
    /\ \E out \in SecondaryOutcomes(QuestionTexts) :
          LET aiQuestions == IF out.kind \in {"text", "noResponse"}
                             THEN OllamaQuestionsTable[dataOf(out).hasResponse,
                                                       dataOf(out).response]
                             ELSE <<>>
          IN  reqs' = [reqs EXCEPT ![r] =
                          IF Len(aiQuestions) > 0
                          THEN respond(ended(reqs[r], "valid", aiQuestions), 200,
                                       QuestionsPayload(TRUE, aiQuestions, "Ollama"))
                          ELSE generateDeterministic(ended(reqs[r], failureOf(out), NoValue))]
    /\ UNCHANGED <<apiKey, scorerVars, questionVars, parseVars, reconcileVars, engineVars, feedbackVars, saveVars>>

RoutesNext ==
    \E r \in Requests :
        \/ AnalyzeArrives(r)
        \/ AnalyzeGenAIReturns(r)
        \/ AnalyzeOllamaReturns(r)
        \/ GenerateArrives(r)
        \/ GenerateGenAIReturns(r)
        \/ GenerateOllamaReturns(r)

SpecRoutes == RoutesInit /\ [][RoutesNext]_vars

\* a backend call of request r comes back
BackendReturns(r) ==
    \/ AnalyzeGenAIReturns(r)
    \/ AnalyzeOllamaReturns(r)
    \/ GenerateGenAIReturns(r)
    \/ GenerateOllamaReturns(r)

\* Every backend call that was started comes back.
BackendsReturn == \A r \in Requests : WF_vars(BackendReturns(r))

SpecRoutesLive == SpecRoutes /\ BackendsReturn

(***************************************************************************)
(* The resume parser  (utils/pdfParser.ts)                                 *)
(*                                                                         *)
(* The two bullet characters outside ASCII are written with stand-ins:     *)
(* "~" for U+2022 (bullet) and "^" for U+00B7 (middle dot).  The texts     *)
(* drawn use neither character for anything else.                          *)
(***************************************************************************)
Bullet == "~"
MiddleDot == "^"

\* the pieces of s between the characters of seps, as split() on one character
RECURSIVE splitFrom(_, _, _)
splitFrom(s, seps, start) ==
    LET stops == {i \in start..Len(s) : CharAt(s, i) \in seps}
        next == IF stops = {} THEN Len(s) + 1 ELSE SetMin(stops)
    IN  <<SubSeq(s, start, next - 1)>>
            \o (IF next > Len(s) THEN <<>> ELSE splitFrom(s, seps, next + 1))

split(s, seps) == splitFrom(s, seps, 1)

NonEmpty(w) == w # ""

\* .map(w => w.trim()).filter(w => w.length > 0)
trimmedNonEmpty(pieces) ==
    SelectSeq([i \in 1..Len(pieces) |-> trim(pieces[i])], NonEmpty)

\* the elements of items at the indices in keep, in order
pickAt(items, keep) ==
    [k \in 1..Cardinality(keep) |->
        items[CHOOSE i \in keep : Cardinality({j \in keep : j <= i}) = k]]

\* [...new Set(items)]
unique(items) ==
    pickAt(items, {i \in 1..Len(items) : \A j \in 1..(i - 1) : items[j] # items[i]})

Range(items) == {items[i] : i \in 1..Len(items)}

\* text.split('\n').map(line => line.trim()).filter(line => line.length > 0)
linesOf(txt) == trimmedNonEmpty(split(txt, {"\n"}))

\* the last index of the run of characters of chars that starts at index start
\* (start - 1 when there is none), and the first index of the run that ends at
\* index end (end + 1 when there is none)
runEnd(s, start, chars) ==
    SetMax({e \in (start - 1)..Len(s) : \A m \in start..e : CharAt(s, m) \in chars})

runStart(s, end, chars) ==
    SetMin({b \in 1..(end + 1) : \A m \in b..end : CharAt(s, m) \in chars})

WordChars == CharsOf(UpperLetters) \cup CharsOf(LowerLetters) \cup CharsOf(DigitChars) \cup {"_"}

\* [\w\.-]
EmailChars == WordChars \cup {".", "-"}

\* the "@" of line after which [\w\.-]+\.\w+ matches and before which [\w\.-]+ does
emailAts(line) ==
    {a \in 2..Len(line) :
        /\ CharAt(line, a) = "@"
        /\ CharAt(line, a - 1) \in EmailChars
        /\ \E d \in (a + 2)..(runEnd(line, a + 1, EmailChars) - 1) :
              CharAt(line, d) = "." /\ CharAt(line, d + 1) \in WordChars}

\* line.match(/[\w\.-]+@[\w\.-]+\.\w+/)[0], "" when there is no match
emailMatch(line) ==
    IF emailAts(line) = {} THEN ""
    ELSE LET a == SetMin(emailAts(line))
             d == SetMax({d \in (a + 2)..(runEnd(line, a + 1, EmailChars) - 1) :
                             CharAt(line, d) = "." /\ CharAt(line, d + 1) \in WordChars})
         IN  SubSeq(line, runStart(line, a - 1, EmailChars), runEnd(line, d + 1, WordChars))

\* [\d\s\-\(\)]
PhoneChars == CharsOf(DigitChars) \cup {" ", "\t", "\n", "\r", "\f", "-", "(", ")"}

MinPhoneLength == 10

\* the indices at which /[\+]?[\d\s\-\(\)]{10,}/ matches
phoneStarts(line) ==
    {i \in 1..Len(line) :
        \/ runEnd(line, i, PhoneChars) - i + 1 >= MinPhoneLength
        \/ CharAt(line, i) = "+" /\ runEnd(line, i + 1, PhoneChars) - i >= MinPhoneLength}

\* line.match(/[\+]?[\d\s\-\(\)]{10,}/)[0], "" when there is no match
phoneMatch(line) ==
    IF phoneStarts(line) = {} THEN ""
    ELSE LET i == SetMin(phoneStarts(line))
         IN  SubSeq(line, i,
                    runEnd(line, IF CharAt(line, i) = "+" THEN i + 1 ELSE i, PhoneChars))

\* s.replace(/\D/g, '').length
digitCount(s) == Cardinality({i \in 1..Len(s) : IsDigit(CharAt(s, i))})

\* s.split(' ').length
spaceParts(s) == Cardinality({i \in 1..Len(s) : CharAt(s, i) = " "}) + 1

\* the first element of lines that Test holds of is found by index: 0 for none
firstEmailLine(lines) ==
    LET hits == {i \in 1..Len(lines) : emailMatch(lines[i]) # ""}
    IN  IF hits = {} THEN 0 ELSE SetMin(hits)

firstPhoneLine(lines) ==
    LET hits == {i \in 1..Len(lines) :
                    /\ phoneMatch(lines[i]) # ""
                    /\ digitCount(phoneMatch(lines[i])) >= MinPhoneLength}
    IN  IF hits = {} THEN 0 ELSE SetMin(hits)

MinNameLength == 2
MaxNameParts == 4

looksLikeName(line) ==
    /\ Len(line) > MinNameLength
    /\ emailMatch(line) = ""
    /\ phoneMatch(line) = ""
    /\ ~includes(toLowerCase(line), "resume")
    /\ ~includes(toLowerCase(line), "cv")
    /\ spaceParts(line) <= MaxNameParts

firstNameLine(lines) ==
    LET hits == {i \in 1..Len(lines) : looksLikeName(lines[i])}
    IN  IF hits = {} THEN 0 ELSE SetMin(hits)

\* a field that is not set is ""
extractPersonalInfo(lines) ==
    [name |-> IF firstNameLine(lines) = 0 THEN "" ELSE lines[firstNameLine(lines)],
     email |-> IF firstEmailLine(lines) = 0 THEN "" ELSE emailMatch(lines[firstEmailLine(lines)]),
     phone |-> IF firstPhoneLine(lines) = 0 THEN "" ELSE phoneMatch(lines[firstPhoneLine(lines)])]

skillKeywords == {"skills", "technical skills", "technologies", "expertise", "competencies"}

techSkills ==
    <<"javascript", "typescript", "python", "java", "c++", "c#", "php", "ruby", "go", "rust",
      "react", "angular", "vue", "node.js", "express", "django", "flask", "spring", "laravel",
      "html", "css", "sass", "scss", "tailwind", "bootstrap",
      "mysql", "postgresql", "mongodb", "redis", "elasticsearch",
      "aws", "azure", "google cloud", "docker", "kubernetes", "jenkins",
      "git", "github", "gitlab", "svn",
      "tensorflow", "pytorch", "scikit-learn", "pandas", "numpy",
      "figma", "sketch", "photoshop", "illustrator", "mern", "postgresql", "redux", "axios">>

\* the separators of /[,•·\-\|\n\t]+/
SkillSeparators == {",", Bullet, MiddleDot, "-", "|", "\n", "\t"}

isListedSkill(word) == toLowerCase(word) \in Range(techSkills)

extractSkillsFromLine(line) ==
    SelectSeq(trimmedNonEmpty(split(line, SkillSeparators)), isListedSkill)

skillsSectionEnders == {"experience", "education", "projects", "work history", "employment"}

\* the loop over the lines of extractSkills, from line i on
RECURSIVE skillsSectionScan(_, _, _, _)
skillsSectionScan(lines, i, inSkillsSection, skillsSectionEnd) ==
    IF i > Len(lines) THEN <<>>
    ELSE IF includesAny(toLowerCase(lines[i]), skillKeywords)
    THEN skillsSectionScan(lines, i + 1, TRUE, skillsSectionEnd)
    ELSE LET leaving == skillsSectionEnd
                        \/ (inSkillsSection
                            /\ includesAny(toLowerCase(lines[i]), skillsSectionEnders))
         IN  (IF inSkillsSection /\ ~leaving THEN extractSkillsFromLine(lines[i]) ELSE <<>>)
                 \o skillsSectionScan(lines, i + 1, inSkillsSection, leaving)

\* the scan of the whole text for the listed skills, from skill k on
RECURSIVE textScan(_, _, _)
textScan(lowerText, k, skills) ==
    IF k > Len(techSkills) THEN skills
    ELSE textScan(lowerText, k + 1,
                  IF /\ includes(lowerText, techSkills[k])
                     /\ ~\E j \in 1..Len(skills) : toLowerCase(skills[j]) = techSkills[k]
                  THEN Append(skills, techSkills[k])
                  ELSE skills)

BulletStarts == {Bullet, "-", "*"}

\* text.match(/[•\-*]\s*[^•\n]*/g) || [], the matches from position pos on
RECURSIVE bulletPointsFrom(_, _)
bulletPointsFrom(txt, pos) ==
    LET starts == {i \in pos..Len(txt) : CharAt(txt, i) \in BulletStarts}
    IN  IF starts = {} THEN <<>>
        ELSE LET i == SetMin(starts)
                 j == SetMax({e \in i..Len(txt) :
                                 \A m \in (i + 1)..e : IsSpace(CharAt(txt, m))})
                 k == SetMax({e \in j..Len(txt) :
                                 \A m \in (j + 1)..e : CharAt(txt, m) \notin {Bullet, "\n"}})
             IN  <<SubSeq(txt, i, k)>> \o bulletPointsFrom(txt, k + 1)

RECURSIVE flatMapSkills(_)
flatMapSkills(bullets) ==
    IF bullets = <<>> THEN <<>>
    ELSE extractSkillsFromLine(Head(bullets)) \o flatMapSkills(Tail(bullets))

extractSkills(txt, lines) ==
    unique(textScan(toLowerCase(txt), 1, skillsSectionScan(lines, 1, FALSE, FALSE))
               \o flatMapSkills(bulletPointsFrom(txt, 1)))

(***************************************************************************)
(* extractExperience, isCompanyName, isJobTitle.                           *)
(*                                                                         *)
(* The code keeps the job being filled in (currentJob) as an object that   *)
(* it both pushes onto the result and goes on assigning to, so the model   *)
(* keeps the objects in a heap and the result as a list of references.     *)
(* An object records the keys it has; the value of a missing key is "".    *)
(***************************************************************************)
\* /\d{4}/.test(s), and the index of the first match (0 for none)
yearStarts(s) ==
    {i \in 1..(Len(s) - 3) : \A m \in i..(i + 3) : IsDigit(CharAt(s, m))}

hasYear(s) == yearStarts(s) # {}

\* /^[A-Z][a-z]+(\s+[A-Z][a-z]+)*$/.test(s)
isTitleCase(s) ==
    /\ Len(s) > 0
    /\ IsUpper(CharAt(s, 1))
    /\ IsLower(CharAt(s, Len(s)))
    /\ \A i \in 1..Len(s) :
          LET c == CharAt(s, i)
          IN  \/ /\ IsUpper(c)
                 /\ (i = 1 \/ IsSpace(CharAt(s, i - 1)))
                 /\ i < Len(s) /\ IsLower(CharAt(s, i + 1))
              \/ /\ IsLower(c)
                 /\ i > 1 /\ IsLetter(CharAt(s, i - 1))
              \/ /\ IsSpace(c)
                 /\ i > 1 /\ i < Len(s)
                 /\ (IsSpace(CharAt(s, i + 1)) \/ IsUpper(CharAt(s, i + 1)))

\* /^[A-Z\s]+$/.test(s)
isAllCaps(s) ==
    Len(s) > 0 /\ \A i \in 1..Len(s) : IsUpper(CharAt(s, i)) \/ IsSpace(CharAt(s, i))

companyKeywords ==
    {"corp", "inc", "ltd", "pvt", "company", "technologies", "solutions", "systems"}

jobKeywords ==
    {"developer", "engineer", "analyst", "manager", "lead", "architect", "consultant",
     "specialist", "designer", "programmer"}

startsWithBullet(line) ==
    startsWith(line, Bullet) \/ startsWith(line, "-") \/ startsWith(line, "*")

\* nextLine is "" where the code has undefined
isCompanyName(line, nextLine) ==
    /\ Len(line) >= 3
    /\ \/ isTitleCase(line)
       \/ isAllCaps(line)
       \/ includesAny(toLowerCase(line), companyKeywords)
    /\ Len(line) > 5 /\ Len(line) < 100
    /\ ~includesAny(toLowerCase(line), jobKeywords)
    /\ ~startsWithBullet(line)
    /\ \/ nextLine # "" /\ includesAny(nextLine, {",", "India", "Mumbai"})
       \/ Len(line) > 10

\* line.split(/\d{4}/)[0].trim()
beforeYear(line) ==
    trim(IF hasYear(line) THEN SubSeq(line, 1, SetMin(yearStarts(line)) - 1) ELSE line)

\* s.replace(/\s+/g, ' '): every run of white space becomes one space
RECURSIVE collapseSpaces(_)
collapseSpaces(s) ==
    IF Len(s) <= 1 THEN (IF s # "" /\ IsSpace(s) THEN " " ELSE s)
    ELSE LET h == Len(s) \div 2
             left == collapseSpaces(SubSeq(s, 1, h))
             right == collapseSpaces(SubSeq(s, h + 1, Len(s)))
         IN  IF left # "" /\ right # "" /\ CharAt(left, Len(left)) = " " /\ CharAt(right, 1) = " "
             THEN left \o SubSeq(right, 2, Len(right))
             ELSE left \o right

\* s.replace(/[^A-Za-z\s]/g, '')
RECURSIVE lettersAndSpaces(_)
lettersAndSpaces(s) ==
    IF Len(s) = 0 THEN ""
    ELSE IF Len(s) = 1 THEN (IF IsLetter(s) \/ IsSpace(s) THEN s ELSE "")
    ELSE LET h == Len(s) \div 2
         IN  lettersAndSpaces(SubSeq(s, 1, h)) \o lettersAndSpaces(SubSeq(s, h + 1, Len(s)))

cleanJobTitle(line) == trim(lettersAndSpaces(collapseSpaces(beforeYear(line))))

isJobTitle(line, nextLine) ==
    /\ Len(line) >= 5
    /\ \/ nextLine # "" /\ hasYear(nextLine)
       \/ hasYear(line)
       \/ Len(line) < 50 /\ spaceParts(line) <= 5
       \/ isTitleCase(cleanJobTitle(line)) /\ includesAny(toLowerCase(line), jobKeywords)
    /\ includesAny(toLowerCase(line), jobKeywords)
    /\ ~includesAny(line, {"India", "Mumbai", "New York", "California"})
    /\ ~isCompanyName(line, nextLine)
    /\ ~startsWithBullet(line)

\* line.match(/\d{4}.*\d{4}|\d{4}.*Present/)[0], "" when there is no match
durationMatch(line) ==
    IF ~hasYear(line) THEN ""
    ELSE LET i == SetMin(yearStarts(line))
             laterYears == {j \in yearStarts(line) : j >= i + 4}
             presents == {j \in (i + 4)..(Len(line) - 6) : SubSeq(line, j, j + 6) = "Present"}
         IN  IF laterYears # {} THEN SubSeq(line, i, SetMax(laterYears) + 3)
             ELSE IF presents # {} THEN SubSeq(line, i, SetMax(presents) + 6)
             ELSE ""

\* line.replace(/^[•\-*]\s*/, '')
stripBullet(line) ==
    IF startsWithBullet(line) THEN SubSeq(line, runEnd(line, 2, {" ", "\t", "\n", "\r", "\f"}) + 1, Len(line))
    ELSE line

NoKeys ==
    [keys |-> {}, title |-> "", company |-> "", duration |-> "", description |-> ""]

\* `${currentJob.title}-${currentJob.company}`
jobKey(job) ==
    (IF "title" \in job.keys THEN job.title ELSE "undefined") \o "-"
        \o (IF "company" \in job.keys THEN job.company ELSE "undefined")

\* The state of the loop of extractExperience: heap holds the objects created,
\* currentJob the index of the one being filled in, experience the indices pushed.
ExperienceStart ==
    [inExperienceSection |-> FALSE, heap |-> <<NoKeys>>, currentJob |-> 1,
     jobDescription |-> <<>>, processedJobs |-> {}, experience |-> <<>>]

\* currentJob.description = jobDescription.join(' '), then the push unless the
\* key was processed, then (when remember) processedJobs.add(jobKey)
saveCurrentJob(st, remember) ==
    LET job == [st.heap[st.currentJob] EXCEPT
                    !.keys = @ \cup {"description"},
                    !.description = join(st.jobDescription, " ")]
    IN  [st EXCEPT
            !.heap[st.currentJob] = job,
            !.experience = IF jobKey(job) \in st.processedJobs THEN @
                           ELSE Append(@, st.currentJob),
            !.processedJobs = IF remember THEN @ \cup {jobKey(job)} ELSE @]

saveIfStarted(st, remember) ==
    IF st.heap[st.currentJob].keys # {} THEN saveCurrentJob(st, remember) ELSE st

experienceKeywords == {"experience", "work history", "employment", "professional experience"}

\* the branch "if (isCompanyName(line, lines[i + 1]))"
onCompanyLine(st, line) ==
    LET saved == saveIfStarted(st, TRUE)
    IN  [saved EXCEPT
            !.heap = Append(@, [NoKeys EXCEPT
                                   !.keys = {"company"},
                                   !.company = trim(split(split(line, {"\t"})[1], {","})[1])]),
            !.currentJob = Len(saved.heap) + 1,
            !.jobDescription = <<>>]

\* the branch "if (isJobTitle(line, lines[i + 1]))"
onTitleLine(st, line) ==
    LET job == st.heap[st.currentJob]
        saved == IF job.title # "" /\ job.company # ""
                 THEN [saveCurrentJob(st, TRUE) EXCEPT !.jobDescription = <<>>]
                 ELSE st
        parts == split(line, {"\t"})
    IN  [saved EXCEPT
            !.heap[st.currentJob] =
                IF Len(parts) >= 2
                THEN [@ EXCEPT !.keys = @ \cup {"title", "duration"},
                               !.title = trim(parts[1]),
                               !.duration = trim(parts[2])]
                ELSE IF durationMatch(line) # ""
                THEN [@ EXCEPT !.keys = @ \cup {"title", "duration"},
                               !.title = cleanJobTitle(line),
                               !.duration = trim(durationMatch(line))]
                ELSE [@ EXCEPT !.keys = @ \cup {"title"},
                               !.title = cleanJobTitle(line)]]

MinDescriptionLength == 20

\* the last branches of the loop body: a bullet point or a further description
onOtherLine(st, line, nextLine) ==
    IF startsWithBullet(line)
    THEN [st EXCEPT !.jobDescription = Append(@, stripBullet(line))]
    ELSE IF /\ Len(line) > MinDescriptionLength
            /\ st.heap[st.currentJob].company # ""
            /\ ~isCompanyName(line, nextLine)
            /\ ~isJobTitle(line, nextLine)
    THEN [st EXCEPT !.jobDescription = Append(@, line)]
    ELSE st

\* the loop of extractExperience from line i on; the result is the state at its exit
RECURSIVE experienceLoop(_, _, _)
experienceLoop(lines, i, st) ==
    IF i > Len(lines) THEN st
    ELSE LET line == trim(lines[i])
             nextLine == IF i < Len(lines) THEN lines[i + 1] ELSE ""
         IN  IF includesAny(toLowerCase(line), experienceKeywords)
             THEN experienceLoop(lines, i + 1, [st EXCEPT !.inExperienceSection = TRUE])
             ELSE IF ~st.inExperienceSection THEN experienceLoop(lines, i + 1, st)
             ELSE IF includesAny(toLowerCase(line), {"education", "projects", "skills"})
             THEN saveIfStarted(st, TRUE)
             ELSE IF isCompanyName(line, nextLine)
             THEN experienceLoop(lines, i + 1, onCompanyLine(st, line))
             ELSE IF isJobTitle(line, nextLine)
             THEN experienceLoop(lines, i + 1, onTitleLine(st, line))
             ELSE experienceLoop(lines, i + 1, onOtherLine(st, line, nextLine))

extractExperience(lines) ==
    LET st == saveIfStarted(experienceLoop(lines, 1, ExperienceStart), FALSE)
    IN  [k \in 1..Len(st.experience) |-> st.heap[st.experience[k]]]

(***************************************************************************)
(* extractProjects, isProjectName                                          *)
(***************************************************************************)
projectKeywords == {"projects", "personal projects", "key projects", "notable projects"}

MinProjectNameLength == 10
MaxProjectNameLength == 100

isProjectName(line) ==
    /\ Len(line) >= 5
    /\ includes(line, ":")
    /\ Len(line) < MaxProjectNameLength
    /\ Len(line) > MinProjectNameLength

NoProjectKeys == [keys |-> {}, name |-> "", description |-> ""]

ProjectsStart ==
    [inProjectsSection |-> FALSE, currentProject |-> NoProjectKeys,
     projectDescription |-> <<>>, processedProjects |-> {}, projects |-> <<>>]

\* variant of saveCurrentProject: the push does not look at processedProjects
saveCurrentProjectUnchecked(st, remember) ==
    LET project == [st.currentProject EXCEPT
                        !.keys = @ \cup {"description"},
                        !.description = join(st.projectDescription, " ")]
    IN  IF st.currentProject.keys = {} THEN st
        ELSE [st EXCEPT
                 !.currentProject = project,
                 !.projects = Append(@, project),
                 !.processedProjects = IF remember THEN @ \cup {project.name} ELSE @]

\* currentProject.description = projectDescription.join(' '), then the push
\* unless the name was processed, then (when remember) processedProjects.add(name)
saveCurrentProject(st, remember) ==
    LET project == [st.currentProject EXCEPT
                        !.keys = @ \cup {"description"},
                        !.description = join(st.projectDescription, " ")]
    IN  IF st.currentProject.keys = {} THEN st
        ELSE [st EXCEPT
                 !.currentProject = project,
                 !.projects = IF project.name \in st.processedProjects THEN @
                              ELSE Append(@, project),
                 !.processedProjects = IF remember THEN @ \cup {project.name} ELSE @]

onProjectLine(st, line) ==
    IF isProjectName(line)
    THEN [saveCurrentProject(st, TRUE) EXCEPT
             !.currentProject = [NoProjectKeys EXCEPT !.keys = {"name"}, !.name = line],
             !.projectDescription = <<>>]
    ELSE IF startsWithBullet(line)
    THEN [st EXCEPT !.projectDescription = Append(@, stripBullet(line))]
    ELSE IF Len(line) > MinProjectNameLength /\ st.currentProject.name # "" /\ ~includes(line, ":")
    THEN [st EXCEPT !.projectDescription = Append(@, line)]
    ELSE st

\* the loop of extractProjects from line i on; the result is the state at its exit
RECURSIVE projectsLoop(_, _, _)
projectsLoop(lines, i, st) ==
    IF i > Len(lines) THEN st
    ELSE LET line == trim(lines[i])
         IN  IF includesAny(toLowerCase(line), projectKeywords)
             THEN projectsLoop(lines, i + 1, [st EXCEPT !.inProjectsSection = TRUE])
             ELSE IF ~st.inProjectsSection THEN projectsLoop(lines, i + 1, st)
             ELSE IF includesAny(toLowerCase(line), {"education", "experience", "skills"})
             THEN saveCurrentProject(st, TRUE)
             ELSE projectsLoop(lines, i + 1, onProjectLine(st, line))

extractProjects(lines) ==
    saveCurrentProject(projectsLoop(lines, 1, ProjectsStart), FALSE).projects

(***************************************************************************)
(* extractEducation                                                        *)
(***************************************************************************)
educationKeywords == {"education", "academic background", "qualifications"}

institutionWords == {"College", "University", "Institute", "School", "Academy", "Foundation"}

degreeWords ==
    {"B.Tech", "B.E", "M.Tech", "M.E", "HSC", "SSC", "Bachelor", "Master", "Diploma", "GPA", "%"}

NoEducationKeys == [keys |-> {}, institution |-> "", degree |-> "", year |-> ""]

EducationStart ==
    [inEducationSection |-> FALSE, currentEducation |-> NoEducationKeys, education |-> <<>>]

pushEducation(st) ==
    IF st.currentEducation.keys = {} THEN st
    ELSE [st EXCEPT !.education = Append(@, st.currentEducation)]

MinEducationLineLength == 5

onEducationLine(st, line) ==
    IF Len(line) <= MinEducationLineLength THEN st
    ELSE IF includesAny(line, institutionWords)
    THEN [pushEducation(st) EXCEPT
             !.currentEducation =
                 [NoEducationKeys EXCEPT !.keys = {"institution"}, !.institution = line]]
    ELSE IF includesAny(line, degreeWords) \/ hasYear(line)
    THEN IF "degree" \in st.currentEducation.keys
         THEN [st EXCEPT
                  !.education = Append(@, st.currentEducation),
                  !.currentEducation =
                      [NoEducationKeys EXCEPT !.keys = {"degree"}, !.degree = line]]
         ELSE [st EXCEPT !.currentEducation.keys = @ \cup {"degree"},
                         !.currentEducation.degree = line]
    ELSE IF hasYear(line) \/ includesAny(line, {"Mumbai", "India", "GPA", "%"})
    THEN [st EXCEPT
             !.currentEducation.keys = @ \cup {"year"},
             !.currentEducation.year =
                 IF "year" \in st.currentEducation.keys THEN @ \o " " \o line ELSE line]
    ELSE IF "institution" \in st.currentEducation.keys /\ "degree" \notin st.currentEducation.keys
    THEN [st EXCEPT !.currentEducation.keys = @ \cup {"degree"},
                    !.currentEducation.degree = line]
    ELSE st

\* the loop of extractEducation from line i on; the result is the state at its exit
RECURSIVE educationLoop(_, _, _)
educationLoop(lines, i, st) ==
    IF i > Len(lines) THEN st
    ELSE LET line == trim(lines[i])
         IN  IF includesAny(toLowerCase(line), educationKeywords)
             THEN educationLoop(lines, i + 1, [st EXCEPT !.inEducationSection = TRUE])
             ELSE IF ~st.inEducationSection THEN educationLoop(lines, i + 1, st)
             ELSE IF includesAny(toLowerCase(line),
                                 {"experience", "projects", "skills", "certifications"})
             THEN [pushEducation(st) EXCEPT !.currentEducation = NoEducationKeys]
             ELSE educationLoop(lines, i + 1, onEducationLine(st, line))

extractEducation(lines) == pushEducation(educationLoop(lines, 1, EducationStart)).education

(***************************************************************************)
(* extractCertifications, extractLanguages                                 *)
(***************************************************************************)
certKeywords == {"certifications", "certificates", "certified", "achievements"}

certificationWords ==
    {"Certified", "Certificate", "Google", "AWS", "Microsoft", "Coursera", "Udemy", "Coding",
     "Full Stack", "UI/UX", "Web Development"}

MinCertificationLength == 5

certificationsOf(line) ==
    IF Len(line) <= MinCertificationLength THEN <<>>
    ELSE IF startsWithBullet(line)
    THEN (IF trim(stripBullet(line)) # "" THEN <<trim(stripBullet(line))>> ELSE <<>>)
    ELSE IF includesAny(line, certificationWords) THEN <<line>>
    ELSE <<>>

\* the loop of extractCertifications from line i on
RECURSIVE certificationsLoop(_, _, _)
certificationsLoop(lines, i, inCertSection) ==
    IF i > Len(lines) THEN <<>>
    ELSE LET line == trim(lines[i])
         IN  IF includesAny(toLowerCase(line), certKeywords) /\ ~startsWithBullet(line)
             THEN certificationsLoop(lines, i + 1, TRUE)
             ELSE IF ~inCertSection THEN certificationsLoop(lines, i + 1, FALSE)
             ELSE IF includesAny(toLowerCase(line),
                                 {"education", "experience", "skills", "projects", "languages"})
             THEN <<>>
             ELSE certificationsOf(line) \o certificationsLoop(lines, i + 1, TRUE)

extractCertifications(lines) == certificationsLoop(lines, 1, FALSE)

languageKeywords == {"languages", "language skills"}

commonLanguages ==
    <<"english", "spanish", "french", "german", "chinese", "japanese", "korean", "hindi",
      "arabic">>

\* the common languages that occur in the line, in the order of the list
languagesIn(lowerLine) ==
    pickAt(commonLanguages,
           {k \in 1..Len(commonLanguages) : includes(lowerLine, commonLanguages[k])})

\* the loop of extractLanguages from line i on
RECURSIVE languagesLoop(_, _, _)
languagesLoop(lines, i, inLanguageSection) ==
    IF i > Len(lines) THEN <<>>
    ELSE LET lowerLine == toLowerCase(lines[i])
         IN  IF includesAny(lowerLine, languageKeywords)
             THEN languagesLoop(lines, i + 1, TRUE)
             ELSE IF ~inLanguageSection THEN languagesLoop(lines, i + 1, FALSE)
             ELSE IF includesAny(lowerLine, {"education", "experience", "skills"})
             THEN <<>>
             ELSE languagesIn(lowerLine) \o languagesLoop(lines, i + 1, TRUE)

extractLanguages(lines) == unique(languagesLoop(lines, 1, FALSE))

(***************************************************************************)
(* parseResumeContent                                                      *)
(***************************************************************************)
ExtractorOrder ==
    <<"personalInfo", "skills", "experience", "projects", "education", "certifications",
      "languages">>

\* the record parseResumeContent starts from
EmptyResult ==
    [personalInfo |-> [name |-> "", email |-> "", phone |-> ""],
     skills |-> <<>>, experience |-> <<>>, projects |-> <<>>, education |-> <<>>,
     certifications |-> <<>>, languages |-> <<>>]

\* what the seven extractors return on the text
extraction(txt) ==
    [personalInfo |-> extractPersonalInfo(linesOf(txt)),
     skills |-> extractSkills(txt, linesOf(txt)),
     experience |-> extractExperience(linesOf(txt)),
     projects |-> extractProjects(linesOf(txt)),
     education |-> extractEducation(linesOf(txt)),
     certifications |-> extractCertifications(linesOf(txt)),
     languages |-> extractLanguages(linesOf(txt))]

\* if (!text || text.trim().length === 0) throw ...
isEmptyInput(txt) == txt = "" \/ Len(trim(txt)) = 0

\* variant of assignedBefore: the extractors after the throwing one still run
assignedBeforeSkipping(k, failing) == failing = 0 \/ k # failing

\* variant of assignedBefore: a throwing extractor leaves nothing assigned
assignedBeforeNone(k, failing) == failing = 0

\* whether the k-th assignment of the inner try block is reached and completes
\* when extractor number failing throws (0: none throws)
assignedBefore(k, failing) == failing = 0 \/ k < failing

\* variant of parseResumeContent: the whole text is tested without trim()
parseResumeContentUntrimmed(txt, extracted, failing) ==
    IF txt = "" THEN [thrown |-> TRUE, value |-> EmptyResult]
    ELSE [thrown |-> FALSE,
          value |-> [f \in DOMAIN EmptyResult |->
                        LET k == CHOOSE k \in 1..Len(ExtractorOrder) : ExtractorOrder[k] = f
                        IN  IF assignedBefore(k, failing) THEN extracted[f]
                            ELSE EmptyResult[f]]]

\* parseResumeContent(text), extracted being what the extractors return on the
\* text and failing the extractor that throws; thrown stands for the Error
\* 'Empty text provided for parsing' leaving the function
parseResumeContent(txt, extracted, failing) ==
    IF isEmptyInput(txt) THEN [thrown |-> TRUE, value |-> EmptyResult]
    ELSE [thrown |-> FALSE,
          value |-> [f \in DOMAIN EmptyResult |->
                        LET k == CHOOSE k \in 1..Len(ExtractorOrder) : ExtractorOrder[k] = f
                        IN  IF assignedBefore(k, failing) THEN extracted[f]
                            ELSE EmptyResult[f]]]

(***************************************************************************)
(* The parser as a program: one call of parseResumeContent                 *)
(***************************************************************************)
MaxLines == 3

LinePool ==
    {"", " \t ", "Jane Doe", "Skills", " React, python", "- react, Docker",
     "Built apps with React", "Projects"}

ResumeTexts == {join(ls, "\n") : ls \in SeqsUpTo(LinePool, MaxLines)}

\* the extractors on every text drawn, evaluated once
ExtractionTable == [t \in ResumeTexts |-> extraction(t)]

\* what the extractors return on txt: looked up for the texts of ResumeTexts
extractedFrom(txt) ==
    IF txt \in DOMAIN ExtractionTable THEN ExtractionTable[txt] ELSE extraction(txt)

ParseInit ==
    /\ resumeText \in ResumeTexts
    /\ fault \in 0..Len(ExtractorOrder)
    /\ result = NoValue
    /\ ppc = "call"
    /\ ScorerIdle /\ QuestionsIdle /\ RoutesIdle /\ ReconcileIdle /\ EnginesIdle /\ FeedbackIdle /\ SaveIdle

ParseStep ==
    /\ ppc = "call"
    /\ LET outcome == parseResumeContent(resumeText, extractedFrom(resumeText), fault)
       IN  /\ result' = IF outcome.thrown THEN NoValue ELSE outcome.value
           /\ ppc' = IF outcome.thrown THEN "thrown" ELSE "returned"
    /\ UNCHANGED <<resumeText, fault>>
    /\ UNCHANGED <<scorerVars, questionVars, routeVars, reconcileVars, engineVars, feedbackVars, saveVars>>

ParseNext == ParseStep

SpecParse == ParseInit /\ [][ParseNext]_vars

(***************************************************************************)
(* parseResumeContent on resumes with one section worked out: a section    *)
(* header followed by up to MaxSectionLines lines of that section's kinds  *)
(* (entries, bullets, a foreign header, a repeated or mixed header).       *)
(***************************************************************************)
MaxSectionLines == 3

ExperienceLines ==
    {"Acme Technologies Pvt", "Software Engineer 2019 - 2021",
     "Senior Developer 2021 - Present", "- Built internal tools", "Education"}

ProjectLines ==
    {"Inventory Tracker: 2023", "Chat App: realtime chat", "- Tracks stock levels",
     "Education", "Projects"}

CertificationLines ==
    {"- AWS Certified Developer", "Google Cloud Professional", "Education",
     "Certifications", "Projects and Achievements"}

SkillLines ==
    {"Python, React", "Docker", "Experience", "Skills", "Projects and Technologies"}

\* header, then up to MaxSectionLines lines of kinds, after the lines of before
SectionTexts(before, header, kinds) ==
    {join(before \o <<header>> \o ls, "\n") : ls \in SeqsUpTo(kinds, MaxSectionLines)}

\* the scenario of the specification's examples, whole and cut to its last section
ScenarioTexts ==
    {"John Doe\njohn@x.com\n+1 555-123-4567\nSkills\nPython, React, AWS\nExperience\nSoftware Engineer at Acme - Built internal tools",
     "Experience\nSoftware Engineer at Acme - Built internal tools",
     "Certifications\nAWS Certified Developer\n- Google Cloud Professional"}

SectionResumes ==
    SectionTexts(<<>>, "Experience", ExperienceLines)
        \cup SectionTexts(<<>>, "Projects", ProjectLines)
        \cup SectionTexts(<<>>, "Certifications", CertificationLines)
        \cup SectionTexts(<<"- Azure Fundamentals">>, "Certifications", CertificationLines)
        \cup SectionTexts(<<>>, "Skills", SkillLines)
        \cup SectionTexts(<<"Kubernetes">>, "Skills", SkillLines)
        \cup ScenarioTexts

SectionsInit ==
    /\ resumeText \in SectionResumes
    /\ fault = 0
    /\ result = NoValue
    /\ ppc = "call"
    /\ ScorerIdle /\ QuestionsIdle /\ RoutesIdle /\ ReconcileIdle /\ EnginesIdle /\ FeedbackIdle /\ SaveIdle

SpecSections == SectionsInit /\ [][ParseNext]_vars

(***************************************************************************)
(* The deterministic engines called one after the other: parseResumeContent *)
(* (utils/pdfParser.ts), generateSmartAnalysis (routes/performance.ts) and *)
(* generateSmartQuestions (routes/questions.ts), in any order and with any *)
(* of the arguments below, each call logged with its result.               *)
(***************************************************************************)
MaxCalls == 3

EngineTexts == {"", "Jane Doe", "Skills\n React, python"}

AnalysisArguments ==
    {[questions |-> BasicQuestionList, answers |-> AnswerBatch(texts), jobDetails |-> SoftwareJob] :
        texts \in {<<ReactDashboardAnswer, "yup">>, <<"React">>}}

QuestionArguments ==
    {[jobDetails |-> AcmeJob, resume |-> resume] : resume \in {TrackerResume, NoResume}}

Call(engine, args, res) == [engine |-> engine, args |-> args, result |-> res]

EnginesInit ==
    /\ calls = <<>>
    /\ ScorerIdle /\ QuestionsIdle /\ RoutesIdle /\ ParseIdle /\ ReconcileIdle /\ FeedbackIdle /\ SaveIdle

CallParseResumeContent ==
    /\ Len(calls) < MaxCalls
    /\ \E txt \in EngineTexts :
          calls' = Append(calls, Call("parseResumeContent", [text |-> txt],
                                      parseResumeContent(txt, extractedFrom(txt), 0)))
    /\ UNCHANGED <<scorerVars, questionVars, routeVars, parseVars, reconcileVars, feedbackVars, saveVars>>

CallGenerateSmartAnalysis ==
    /\ Len(calls) < MaxCalls
    /\ \E a \in AnalysisArguments :
          calls' = Append(calls, Call("generateSmartAnalysis", a,
                                      generateSmartAnalysis(a.questions, a.answers, a.jobDetails)))
    /\ UNCHANGED <<scorerVars, questionVars, routeVars, parseVars, reconcileVars, feedbackVars, saveVars>>

CallGenerateSmartQuestions ==
    /\ Len(calls) < MaxCalls
    /\ \E a \in QuestionArguments :
          calls' = Append(calls, Call("generateSmartQuestions", a,
                                      generateSmartQuestions(a.jobDetails, a.resume)))
    /\ UNCHANGED <<scorerVars, questionVars, routeVars, parseVars, reconcileVars, feedbackVars, saveVars>>

EnginesNext ==
    \/ CallParseResumeContent
    \/ CallGenerateSmartAnalysis
    \/ CallGenerateSmartQuestions

SpecEngines == EnginesInit /\ [][EnginesNext]_vars

(***************************************************************************)
(* calculateScores and generateFeedback on a given AnswerAnalysis          *)
(* (routes/performance.ts): the analysis of a batch of up to MaxBatch      *)
(* answers, each either short (FewWords words: nonsensical or of poor      *)
(* quality) or long (ManyWords words: meaningful), with every count of     *)
(* signals such answers can show.                                          *)
(***************************************************************************)
MaxBatch == 2
FewWords == 3
ManyWords == 60

AnalysisOf(non, poor, mean, sig) ==
    [totalWords |-> (non + poor) * FewWords + mean * ManyWords,
     averageLength |-> Ratio((non + poor) * FewWords + mean * ManyWords, non + poor + mean),
     technicalTerms |-> sig[1], experienceMentions |-> sig[2], problemSolving |-> sig[3],
     specificExamples |-> sig[4], communicationQuality |-> sig[5],
     nonsensicalAnswers |-> non, poorQualityAnswers |-> poor, meaningfulAnswers |-> mean]

\* a nonsensical answer shows no signal, a short answer no communication quality
GivenAnalyses ==
    {AnalysisOf(t[1], t[2], t[3], sig) :
        t \in {u \in (0..MaxBatch) \X (0..MaxBatch) \X (0..MaxBatch) :
                  u[1] + u[2] + u[3] <= MaxBatch},
        sig \in (0..MaxBatch) \X (0..MaxBatch) \X (0..MaxBatch) \X (0..MaxBatch)
                    \X (0..MaxBatch)}

Plausible(a) ==
    /\ a.technicalTerms <= a.poorQualityAnswers + a.meaningfulAnswers
    /\ a.experienceMentions <= a.poorQualityAnswers + a.meaningfulAnswers
    /\ a.problemSolving <= a.poorQualityAnswers + a.meaningfulAnswers
    /\ a.specificExamples <= a.poorQualityAnswers + a.meaningfulAnswers
    /\ a.communicationQuality <= a.meaningfulAnswers

FeedbackInit ==
    /\ fbAnalysis \in {a \in GivenAnalyses : Plausible(a)}
    /\ fbJob \in JobPool
    /\ fbScores = NoValue
    /\ fbFeedback = NoValue
    /\ fpc = "score"
    /\ ScorerIdle /\ QuestionsIdle /\ RoutesIdle /\ ParseIdle /\ ReconcileIdle /\ EnginesIdle /\ SaveIdle

\* const scores = calculateScores(answers, answerAnalysis, jobDetails)
ScoreGiven ==
    /\ fpc = "score"
    /\ fbScores' = calculateScores(fbAnalysis)
    /\ fpc' = "feedback"
    /\ UNCHANGED <<fbAnalysis, fbJob, fbFeedback>>
    /\ UNCHANGED <<scorerVars, questionVars, routeVars, parseVars, reconcileVars, engineVars, saveVars>>

\* const feedback = generateFeedback(answers, answerAnalysis, jobDetails)
FeedbackGiven ==
    /\ fpc = "feedback"
    /\ fbFeedback' = generateFeedback(fbAnalysis, fbJob)
    /\ fpc' = "done"
    /\ UNCHANGED <<fbAnalysis, fbJob, fbScores>>
    /\ UNCHANGED <<scorerVars, questionVars, routeVars, parseVars, reconcileVars, engineVars, saveVars>>

FeedbackNext == ScoreGiven \/ FeedbackGiven

SpecFeedback == FeedbackInit /\ [][FeedbackNext]_vars

(***************************************************************************)
(* The route POST /api/users/save-interview (routes/users.ts) with the     *)
(* validation of the User schema (models/User.ts).  A string field that is  *)
(* missing or empty is ""; hasOverall is FALSE for a body without          *)
(* overallScore.                                                           *)
(***************************************************************************)
MinScore == 0
MaxScore == 100

OverallPool == {0, 1, 100, 150}

SaveBody(name, mobile, title, company, hasOverall, overall) ==
    [name |-> name, mobileNumber |-> mobile, jobTitle |-> title, company |-> company,
     hasOverall |-> hasOverall, overallScore |-> overall,
     technicalScore |-> 25, behavioralScore |-> 4, communicationScore |-> 20]

SaveBodies ==
    {SaveBody(n, m, t, c, h, o) :
        n \in {"", "Asha Rao"}, m \in {"", "9876543210"}, t \in {"", "Software Engineer"},
        c \in {"", "Acme"}, h \in BOOLEAN, o \in OverallPool}

\* variant of missingRequired: only an absent overallScore counts as missing
missingRequiredAbsent(body) ==
    \/ body.name = ""
    \/ body.mobileNumber = ""
    \/ ~body.hasOverall
    \/ body.jobTitle = ""
    \/ body.company = ""

\* !name || !mobileNumber || !overallScore || !jobTitle || !company
missingRequired(body) ==
    \/ body.name = ""
    \/ body.mobileNumber = ""
    \/ ~body.hasOverall \/ body.overallScore = 0
    \/ body.jobTitle = ""
    \/ body.company = ""

InRange(score) == score >= MinScore /\ score <= MaxScore

\* the validation that save() runs: required fields and min / max of the scores
schemaAccepts(body) ==
    /\ trim(body.name) # "" /\ trim(body.mobileNumber) # ""
    /\ trim(body.jobTitle) # "" /\ trim(body.company) # ""
    /\ body.hasOverall /\ InRange(body.overallScore)
    /\ InRange(body.technicalScore)
    /\ InRange(body.behavioralScore)
    /\ InRange(body.communicationScore)

SaveReply(status, success) == [status |-> status, success |-> success]

SaveInit ==
    /\ saveBody \in {b \in SaveBodies : b.hasOverall \/ b.overallScore = 0}
    /\ stored = <<>>
    /\ saveResponse = NoValue
    /\ dbUp \in BOOLEAN
    /\ svpc = "entry"
    /\ ScorerIdle /\ QuestionsIdle /\ RoutesIdle /\ ParseIdle /\ ReconcileIdle /\ EnginesIdle
    /\ FeedbackIdle

\* the handler from its entry to res.status(400) or to await userInterview.save()
SaveArrives ==
    /\ svpc = "entry"
    /\ IF missingRequired(saveBody)
       THEN saveResponse' = SaveReply(400, FALSE) /\ svpc' = "done"
       ELSE saveResponse' = saveResponse /\ svpc' = "saving"
    /\ UNCHANGED <<saveBody, stored, dbUp>>
    /\ UNCHANGED <<scorerVars, questionVars, routeVars, parseVars, reconcileVars, engineVars,
                   feedbackVars>>

\* the handler from the settling of save() to res.status(201) or the catch
SaveSettles ==
    /\ svpc = "saving"
    /\ IF dbUp /\ schemaAccepts(saveBody)
       THEN stored' = Append(stored, saveBody) /\ saveResponse' = SaveReply(201, TRUE)
       ELSE stored' = stored /\ saveResponse' = SaveReply(500, FALSE)
    /\ svpc' = "done"
    /\ UNCHANGED <<saveBody, dbUp>>
    /\ UNCHANGED <<scorerVars, questionVars, routeVars, parseVars, reconcileVars, engineVars,
                   feedbackVars>>

SaveNext == SaveArrives \/ SaveSettles

SpecSave == SaveInit /\ [][SaveNext]_vars

(***************************************************************************)
(* Properties of the scorer (checked under SpecScorer)                     *)
(***************************************************************************)
ScorerDone == spc = "done"

Signals(i) == SignalTable[answers[i].answer]

HasNonsensicalAnswer == \E i \in 1..Len(answers) : Signals(i).nonsensical

HasSingleWordAnswer == \E i \in 1..Len(answers) : Signals(i).wordCount = 1

\* C1: a batch with at least one nonsensical answer (in particular one with a
\* single-word answer) gets overallScore <= 15, technicalScore <= 10,
\* behavioralScore <= 10 and communicationScore <= 15, whatever the other
\* answers are.
C1_NonsensicalCapsScores ==
    (ScorerDone /\ (HasNonsensicalAnswer \/ HasSingleWordAnswer)) =>
        /\ smart.overallScore <= 15
        /\ smart.technicalScore <= 10
        /\ smart.behavioralScore <= 10
        /\ smart.communicationScore <= 15

\* one single-word answer next to five meaningful ones
C1_Witness ==
    /\ ScorerDone
    /\ HasSingleWordAnswer
    /\ analysis.nonsensicalAnswers = 1
    /\ analysis.meaningfulAnswers >= 5
    /\ smart.overallScore <= 15

ScoreRange == 0..100

\* C4: for every batch, the empty one included, each of the four scores
\* returned by generateSmartAnalysis is an integer in 0..100.
C4_ScoresInRange ==
    ScorerDone =>
        /\ smart.overallScore \in ScoreRange
        /\ smart.technicalScore \in ScoreRange
        /\ smart.behavioralScore \in ScoreRange
        /\ smart.communicationScore \in ScoreRange

\* the cap at 100 is what bounds the technical score: six technical answers
C4_Witness ==
    /\ ScorerDone
    /\ analysis.technicalTerms >= 6
    /\ analysis.nonsensicalAnswers = 0
    /\ smart.technicalScore = 100

OneStrongAnswer ==
    /\ Len(answers) = 1
    /\ analysis.meaningfulAnswers = 1
    /\ analysis.technicalTerms >= 1
    /\ analysis.problemSolving >= 1
    /\ analysis.experienceMentions >= 1

\* C5 as claimed: one meaningful answer with technical, problem-solving and
\* experience signals scores technicalScore > 50 and behavioralScore > 40.
C5_AsClaimed ==
    (ScorerDone /\ OneStrongAnswer) =>
        smart.technicalScore > 50 /\ smart.behavioralScore > 40

\* C5 amended: one meaningful answer with technical, problem-solving and
\* experience signals scores technicalScore = 20 and behavioralScore =
\* 15 * (1 + specificExamples), that is 15 or 30.
C5_OneAnswerScores ==
    (ScorerDone /\ OneStrongAnswer) =>
        /\ smart.technicalScore = 20
        /\ smart.behavioralScore = 15 * (1 + analysis.specificExamples)

\* the 30-word React-dashboard answer, alone in its batch
C5_Witness ==
    /\ ScorerDone
    /\ OneStrongAnswer
    /\ answers[1].answer = ReactDashboardAnswer
    /\ smart.technicalScore = 20
    /\ smart.behavioralScore = 15

MeaningfulRegime ==
    /\ spc \in {"assemble", "done"}
    /\ analysis.nonsensicalAnswers = 0
    /\ analysis.poorQualityAnswers = 0
    /\ analysis.meaningfulAnswers > 0

\* C6: in the meaningful regime calculateScores returns technical =
\* min(100, 20 * technicalTerms), behavioral = min(100, 15 * (problemSolving +
\* specificExamples)), communication = min(100, 25 * communicationQuality) and
\* overall = their unweighted mean; technical is 0 with no technical hit.
C6_MeaningfulRegimeScores ==
    MeaningfulRegime =>
        /\ scores.technical = Pts(Min(100, 20 * analysis.technicalTerms))
        /\ scores.behavioral =
             Pts(Min(100, 15 * (analysis.problemSolving + analysis.specificExamples)))
        /\ scores.communication = Pts(Min(100, 25 * analysis.communicationQuality))
        /\ Thirds * scores.overall =
             scores.technical + scores.behavioral + scores.communication
        /\ (analysis.technicalTerms = 0 => scores.technical = 0)

\* an all-meaningful batch with no technical hit beside one with hits
C6_Witness ==
    /\ MeaningfulRegime
    /\ spc = "done"
    /\ analysis.technicalTerms = 0
    /\ analysis.meaningfulAnswers >= 2
    /\ smart.technicalScore = 0

PoorQualityRegime ==
    /\ spc \in {"assemble", "done"}
    /\ analysis.nonsensicalAnswers = 0
    /\ analysis.poorQualityAnswers >= 1

PoorQualityPenalty == 20 * analysis.poorQualityAnswers

\* C13: in the poor-quality regime (no nonsensical answer, p >= 1 poor-quality
\* answers) calculateScores returns technical = max(0, min(100, 15 *
\* technicalTerms) - 20p), behavioral = max(0, min(100, 12 * (problemSolving +
\* specificExamples)) - 20p), communication = max(0, min(100, 20 *
\* communicationQuality) - 20p), and overall is the mean of these three
\* penalized scores, with no further penalty subtracted from it.
C13_PoorQualityRegimeScores ==
    PoorQualityRegime =>
        /\ scores.technical =
             Pts(Max(0, Min(100, 15 * analysis.technicalTerms) - PoorQualityPenalty))
        /\ scores.behavioral =
             Pts(Max(0, Min(100, 12 * (analysis.problemSolving + analysis.specificExamples))
                        - PoorQualityPenalty))
        /\ scores.communication =
             Pts(Max(0, Min(100, 20 * analysis.communicationQuality) - PoorQualityPenalty))
        /\ Thirds * scores.overall =
             scores.technical + scores.behavioral + scores.communication

\* one poor-quality answer beside two strong ones: the three penalized scores
\* are 25, 4 and 20, and overall is 0 where their mean is 49/3
C13_Witness ==
    /\ PoorQualityRegime
    /\ spc = "done"
    /\ Len(answers) = 3
    /\ answers[1].answer = "I like React"
    /\ answers[2].answer = ReactDashboardAnswer
    /\ answers[3].answer = ReactDashboardAnswer
    /\ scores.technical = Pts(25)
    /\ scores.behavioral = Pts(4)
    /\ scores.communication = Pts(20)
    /\ scores.overall = 0
    /\ smart.overallScore = 0

NonsensicalRegime ==
    /\ spc \in {"assemble", "done"}
    /\ analysis.nonsensicalAnswers >= 1

\* C14: with n >= 1 nonsensical answers calculateScores returns overall
\* min(15, 5n), technical and behavioral min(10, 3n) and communication
\* min(15, 4n), whatever the poor-quality, meaningful and positive-signal counts
\* of the batch are; two batches with the same n get the same four scores.
C14_NonsensicalRegimeOnlyCount ==
    NonsensicalRegime =>
        scores = ScoreSet(Pts(Min(15, 5 * analysis.nonsensicalAnswers)),
                          Pts(Min(10, 3 * analysis.nonsensicalAnswers)),
                          Pts(Min(10, 3 * analysis.nonsensicalAnswers)),
                          Pts(Min(15, 4 * analysis.nonsensicalAnswers)))

\* one nonsensical answer in a batch that also has a poor-quality answer and
\* strong answers with every positive signal
C14_Witness ==
    /\ NonsensicalRegime
    /\ analysis.nonsensicalAnswers = 1
    /\ analysis.poorQualityAnswers >= 1
    /\ analysis.meaningfulAnswers >= 2
    /\ analysis.technicalTerms >= 3
    /\ analysis.communicationQuality >= 2
    /\ scores = ScoreSet(Pts(5), Pts(3), Pts(3), Pts(4))

Analyzed == spc \in {"score", "assemble", "done"}

AnswerIndexes == 1..Len(answers)

Tiered(i) == IF Signals(i).nonsensical THEN "nonsensical"
             ELSE IF Signals(i).poor THEN "poor" ELSE "meaningful"

InTier(tier) == Cardinality({i \in AnswerIndexes : Tiered(i) = tier})

\* the answers that are not nonsensical and show the signal
Showing(signal) ==
    Cardinality({i \in AnswerIndexes : ~Signals(i).nonsensical /\ Signals(i)[signal]})

\* C15: analyzeAnswers puts every answer in exactly one tier, so the three tier
\* counters add up to the number of answers; a nonsensical answer feeds no
\* positive-signal counter, each such counter counts an answer at most once,
\* and none exceeds poorQualityAnswers + meaningfulAnswers.
C15_OneTierPerAnswer ==
    Analyzed =>
        /\ analysis.nonsensicalAnswers = InTier("nonsensical")
        /\ analysis.poorQualityAnswers = InTier("poor")
        /\ analysis.meaningfulAnswers = InTier("meaningful")
        /\ analysis.nonsensicalAnswers + analysis.poorQualityAnswers
             + analysis.meaningfulAnswers = Len(answers)
        /\ analysis.technicalTerms = Showing("technical")
        /\ analysis.experienceMentions = Showing("experience")
        /\ analysis.problemSolving = Showing("problemSolving")
        /\ analysis.specificExamples = Showing("specificExample")
        /\ analysis.communicationQuality = Showing("communication")
        /\ \A f \in {"technicalTerms", "experienceMentions", "problemSolving",
                     "specificExamples", "communicationQuality"} :
              analysis[f] <= analysis.poorQualityAnswers + analysis.meaningfulAnswers

\* a batch with an answer in each tier whose nonsensical answer is the one
\* word "React", a technical term that is not counted
C15_Witness ==
    /\ Analyzed
    /\ \E i \in AnswerIndexes : answers[i].answer = "React"
    /\ analysis.nonsensicalAnswers = 1
    /\ analysis.poorQualityAnswers = 1
    /\ analysis.meaningfulAnswers = 1
    /\ analysis.technicalTerms = 0

(***************************************************************************)
(* Properties of the question generator (checked under SpecQuestions)      *)
(***************************************************************************)
QuestionsDone == gpc = "done"

FirstProjectNamed ==
    /\ genResume.present
    /\ Len(genResume.projects) > 0
    /\ genResume.projects[1].name # ""

NoProject == ~genResume.present \/ Len(genResume.projects) = 0

\* C9: generateSmartQuestions returns exactly 5 questions for every job title
\* and resume, a null resume included; the name of the resume's first project,
\* when it has one, occurs in the text of a returned question; and without a
\* project the second question is the resume-agnostic template.
C9_FiveQuestionsProjectNamed ==
    QuestionsDone =>
        /\ Len(genQuestions) = 5
        /\ FirstProjectNamed =>
              \E i \in 1..Len(genQuestions) :
                  includes(genQuestions[i].text, genResume.projects[1].name)
        /\ NoProject =>
              /\ genQuestions[2].text = AgnosticProjectQuestion
              /\ \A i \in 1..Len(genQuestions) :
                    \A p \in {InventoryTracker, SalesReport} :
                        ~includes(genQuestions[i].text, p.name)

C9_Witness ==
    /\ QuestionsDone
    /\ genJob.title = "Software Engineer"
    /\ genResume.present
    /\ genResume.projects = <<InventoryTracker>>
    /\ Len(genQuestions) = 5
    /\ includes(genQuestions[2].text, "Inventory Tracker")

TechnicalProbes ==
    {"Good use of specific experience and examples. ",
     "Consider providing more specific technical examples from your experience. "}

StarProbes ==
    {"Excellent use of STAR method for behavioral questions. ",
     "Consider using the STAR method (Situation, Task, Action, Result) for better structure. "}

GeneralClauses ==
    {"Consider providing more comprehensive answers with specific examples. ",
     "Good detailed response, but ensure you stay focused on the key points. ",
     "Well-structured response with good detail. "}

\* the feedback text opens with one of the sentences, up to the blank that
\* the final trim removes
OpensWith(text, sentences) == \E t \in sentences : startsWith(text, trim(t))

\* C23: the detailed feedback of an answered question follows the category
\* the question declares: the technical probes for "Technical", the probe of
\* the STAR method for "Behavioral", the general clauses on the word count
\* only for the other categories.
C23_FeedbackFollowsCategory ==
    ScorerDone =>
        \A i \in 1..Len(questions) :
            findAnswer(answers, i - 1) # 0 =>
                LET category == toLowerCase(questions[i].category)
                    text == smart.detailedFeedback[i]
                IN  IF includes(category, "technical") THEN OpensWith(text, TechnicalProbes)
                    ELSE IF includes(category, "behavioral") THEN OpensWith(text, StarProbes)
                    ELSE OpensWith(text, GeneralClauses)

\* the question of category "Behavioral" gets a general clause
C23_Witness ==
    /\ ScorerDone
    /\ Len(answers) >= 2
    /\ questions[2].category = "Behavioral"
    /\ questions[2].type = NoValue
    /\ OpensWith(smart.detailedFeedback[2], GeneralClauses)
    /\ ~OpensWith(smart.detailedFeedback[2], StarProbes)

QuestionIds == [i \in 1..Len(genQuestions) |-> genQuestions[i].id]

RoleSpecificIds == 6..11

\* C24: generateSmartQuestions returns exactly the five base questions, ids
\* 1..5 in that order; the base questions come first and the list is cut to
\* five, so no role-specific question (ids 6..11) is in the output, for any
\* job title and any resume.
C24_OnlyBaseQuestions ==
    QuestionsDone =>
        /\ genQuestions = baseQuestions(genJob, genResume)
        /\ QuestionIds = <<1, 2, 3, 4, 5>>
        /\ \A i \in 1..Len(genQuestions) : genQuestions[i].id \notin RoleSpecificIds

C24_Witness ==
    /\ QuestionsDone
    /\ genJob.title = "Lead Data Developer"
    /\ genResume.present
    /\ Len(getRoleSpecificQuestions(genJob.title, genJob.requirements, genResume)) >= 2
    /\ QuestionIds = <<1, 2, 3, 4, 5>>

NonsensicalTexts == {t \in AnswerPool : SignalTable[t].nonsensical}

\* the four rounded scores of a batch, as generateSmartAnalysis returns them
RoundedScores(as) ==
    LET sc == calculateScores(analyzeAnswers(as))
    IN  [overallScore |-> MathRound(sc.overall), technicalScore |-> MathRound(sc.technical),
         behavioralScore |-> MathRound(sc.behavioral),
         communicationScore |-> MathRound(sc.communication)]

NoLower(before, after) ==
    /\ after.overallScore >= before.overallScore
    /\ after.technicalScore >= before.technicalScore
    /\ after.behavioralScore >= before.behavioralScore
    /\ after.communicationScore >= before.communicationScore

\* C26: with at least one nonsensical answer the scorer returns overallScore
\* >= 5, technicalScore >= 3, behavioralScore >= 3 and communicationScore >= 4,
\* and none of the four decreases when one more nonsensical answer is added
\* to the batch; a batch without nonsensical answers can score 0 on all four.
C26_NonsensicalFloor ==
    /\ (ScorerDone /\ analysis.nonsensicalAnswers >= 1) =>
          /\ smart.overallScore >= 5
          /\ smart.technicalScore >= 3
          /\ smart.behavioralScore >= 3
          /\ smart.communicationScore >= 4
          /\ \A t \in NonsensicalTexts :
                NoLower(smart,
                        RoundedScores(Append(answers, [questionIndex |-> Len(answers),
                                                       answer |-> t])))
    /\ (ScorerDone /\ analysis.nonsensicalAnswers = 0 /\ analysis.meaningfulAnswers = 0
        /\ analysis.technicalTerms = 0 /\ analysis.problemSolving = 0
        /\ analysis.specificExamples = 0 /\ analysis.communicationQuality = 0) =>
          /\ smart.overallScore = 0 /\ smart.technicalScore = 0
          /\ smart.behavioralScore = 0 /\ smart.communicationScore = 0

C26_Witness ==
    /\ ScorerDone
    /\ analysis.nonsensicalAnswers = 1
    /\ analysis.meaningfulAnswers >= 1
    /\ smart.overallScore = 5
    /\ smart.technicalScore = 3
    /\ smart.behavioralScore = 3
    /\ smart.communicationScore = 4
    /\ \E t \in NonsensicalTexts :
          RoundedScores(Append(answers, [questionIndex |-> Len(answers), answer |-> t]))
              .overallScore = 10

\* C27: in the poor-quality regime, with p >= 1 poor-quality answers and no
\* nonsensical one, each of technical, behavioral and communication is at
\* most max(0, 100 - 20p), hence at most 80, and overall is at most 60,
\* whatever the counts of positive signals.
C27_PoorQualityCeiling ==
    PoorQualityRegime =>
        LET ceiling == Pts(Max(0, 100 - 20 * analysis.poorQualityAnswers))
        IN  /\ scores.technical <= ceiling
            /\ scores.behavioral <= ceiling
            /\ scores.communication <= ceiling
            /\ ceiling <= Pts(80)
            /\ scores.overall <= Pts(60)

\* seven answers with a technical term, one of them of poor quality
C27_Witness ==
    /\ PoorQualityRegime
    /\ analysis.poorQualityAnswers = 1
    /\ analysis.technicalTerms * 15 > 100
    /\ scores.technical = Pts(80)
    /\ scores.overall <= Pts(60)

PageShaped == answers # <<>> /\ \A k \in 1..Len(answers) : answers[k].questionIndex = NoIndex

\* C29: generateDetailedFeedback gives one entry per question, question1 to
\* questionN, and pairs an answer with a question only through the field
\* questionIndex of the answer; answers as the interview page stores them
\* have no questionIndex and match no question, so every question gets the
\* text "No answer provided" although analyzeAnswers counts each answer.
C29_FeedbackByQuestionIndex ==
    ScorerDone =>
        /\ Len(smart.detailedFeedback) = Len(questions)
        /\ \A i \in 1..Len(questions) :
              LET hits == {k \in 1..Len(answers) : answers[k].questionIndex = i - 1}
              IN  smart.detailedFeedback[i] =
                      IF hits = {} THEN NoAnswerFeedback
                      ELSE FeedbackTable[questions[i], answers[SetMin(hits)].answer, jobDetails]
        /\ PageShaped =>
              /\ \A i \in 1..Len(questions) : smart.detailedFeedback[i] = NoAnswerFeedback
              /\ analysis.nonsensicalAnswers + analysis.poorQualityAnswers
                    + analysis.meaningfulAnswers = Len(answers)

C29_Witness ==
    /\ ScorerDone
    /\ PageShaped
    /\ Len(answers) = Len(questions)
    /\ analysis.meaningfulAnswers = 2
    /\ smart.technicalScore > 0
    /\ \A i \in 1..Len(questions) : smart.detailedFeedback[i] = NoAnswerFeedback

(***************************************************************************)
(* Properties of the question reconciliation (checked under SpecReconcile) *)
(***************************************************************************)
ReadsQuestion == replyReader = "genai"

\* strategy 1: the strict parse of the bracketed part gives a non-empty array
\* of objects
ArrayParsed ==
    /\ replyText.array.kind = "ok"
    /\ Len(replyText.array.items) > 0
    /\ \A i \in 1..Len(replyText.array.items) : ~replyText.array.items[i].isNull

FromArray ==
    [i \in 1..Len(replyText.array.items) |->
        toQuestion(replyText.array.items[i], i, ReadsQuestion)]

FromObjects == fromObjects(replyText.objects, ReadsQuestion)

FromNumbered == fromNumbered(replyText.numbered)

\* C16: the reconciliation returns what the first successful strategy gives,
\* in the order strict parse of the bracketed part, per-object parse,
\* numbered-list extraction: a failed strict parse is followed by the
\* per-object parse, and the empty list is returned only when all three fail.
C16_StrategiesInOrder ==
    rpc = "done" =>
        replyQuestions = IF ArrayParsed THEN FromArray
                         ELSE IF FromObjects # <<>> THEN FromObjects
                         ELSE FromNumbered

\* the fenced text: the strict parse throws, the per-object parse would give
\* the challenge question, and the list returned is empty
C16_Witness ==
    /\ rpc = "done"
    /\ replyText.name = "fenced"
    /\ replyText.array.kind = "bad"
    /\ Len(FromObjects) = 1
    /\ FromObjects[1].text = ChallengeItem.text
    /\ replyQuestions = <<>>

(***************************************************************************)
(* Properties of the two routes (checked under SpecRoutes, SpecRoutesLive) *)
(***************************************************************************)
StageRank(name) ==
    IF name = "primary" THEN 1 ELSE IF name = "secondary" THEN 2 ELSE 3

NoValidResult == {"threw", "failed", "invalid"}

\* the response carries the result of the stage
Carries(route, response, res) ==
    IF route = "analyze" THEN response.payload = res ELSE response.payload.questions = res

StagesInOrder(r) ==
    LET st == reqs[r].stages
        n == Len(st)
    IN  /\ n > 0 => st[1].stage = (IF apiKey THEN "primary" ELSE "secondary")
        /\ \A i \in 1..n : st[i].stage = "primary" => apiKey
        /\ \A i \in 1..(n - 1) :
              /\ StageRank(st[i + 1].stage) = StageRank(st[i].stage) + 1
              /\ st[i].outcome \in NoValidResult
        /\ \A i \in 1..n :
              st[i].outcome = "valid" =>
                  /\ i = n
                  /\ Len(reqs[r].responses) = 1
                  /\ Carries(reqs[r].route, reqs[r].responses[1], st[i].result)
        /\ (n > 0 /\ st[n].outcome = "pending") => reqs[r].responses = <<>>

\* C7: in both routes the stages start in the order primary backend (only with
\* an API key), secondary backend, deterministic engine; a stage starts only
\* after every earlier one threw, failed or gave no valid result; and when a
\* stage gives a valid result no later stage starts and the response carries
\* that result.
C7_StagesFallThroughInOrder == \A r \in Requests : StagesInOrder(r)

C7_Witness ==
    \E r \in Requests :
        /\ apiKey
        /\ reqs[r].route = "analyze"
        /\ Len(reqs[r].stages) = 2
        /\ reqs[r].stages[1].stage = "primary"
        /\ reqs[r].stages[1].outcome = "invalid"
        /\ reqs[r].stages[2].stage = "secondary"
        /\ reqs[r].stages[2].outcome = "valid"
        /\ reqs[r].pc = "done"
        /\ reqs[r].responses[1].payload = reqs[r].stages[2].result

\* the four scores and the three lists are defined in the analysis sent
CompleteAnalysis(payload) ==
    IF "has" \in DOMAIN payload
    THEN ScoreFields \cup ListFields \subseteq payload.has
    ELSE ScoreFields \cup ListFields \subseteq DOMAIN payload

CompleteResponse(r) ==
    /\ Len(reqs[r].responses) = 1
    /\ IF reqs[r].route = "analyze"
       THEN CompleteAnalysis(reqs[r].responses[1].payload)
       ELSE Len(reqs[r].responses[1].payload.questions) > 0

Arrived(r) == reqs[r].pc # "idle"
Ended(r) == reqs[r].pc = "done"

\* C8: provided every backend call comes back, every request to either route
\* ends, with exactly one response; the response of /analyze has the four
\* scores, strengths, weaknesses and suggestions, and the response of
\* /generate a non-empty question list, whatever the backends answer and
\* whatever the request body.
C8_EveryRequestAnswered ==
    /\ [](\A r \in Requests :
            /\ Len(reqs[r].responses) <= 1
            /\ ~Ended(r) => reqs[r].responses = <<>>
            /\ Ended(r) => CompleteResponse(r))
    /\ \A r \in Requests : Arrived(r) ~> Ended(r)

C8_Witness ==
    \E r, q \in Requests :
        /\ reqs[r].route = "analyze"
        /\ Ended(r)
        /\ Len(reqs[r].stages) = 3
        /\ reqs[r].stages[3].outcome = "threw"
        /\ CompleteResponse(r)
        /\ reqs[q].route = "generate"
        /\ Ended(q)
        /\ reqs[q].stages = <<>>
        /\ reqs[q].responses[1].status = 500
        /\ CompleteResponse(q)

\* What one request does when no other request exists: its record after the
\* entry of its handler, and after the return of a backend call with outcome
\* out.
AloneArrival(route, body, key) ==
    LET req == [NewRequest EXCEPT !.route = route, !.body = body]
    IN  IF route = "analyze"
        THEN IF analyzePrologueThrows(body) THEN analyzeCatch(req)
             ELSE began(req, firstStage(key))
        ELSE IF generatePrologueThrows(body) THEN generateCatch(req)
             ELSE began(req, firstStage(key))

AloneAnalysis(req, ai, out) ==
    IF ai.kind = "ok" THEN respond(ended(req, "valid", ai.obj), 200, ai.obj)
    ELSE IF req.pc = "genai" THEN began(ended(req, failureOf(out), NoValue), "secondary")
    ELSE analyzeDeterministic(ended(req, failureOf(out), NoValue))

AloneQuestions(req, qs, out) ==
    IF Len(qs) > 0
    THEN respond(ended(req, "valid", qs), 200,
                 QuestionsPayload(TRUE, qs, IF req.pc = "genai" THEN "Google GenAI" ELSE "Ollama"))
    ELSE IF req.pc = "genai" THEN began(ended(req, failureOf(out), NoValue), "secondary")
    ELSE generateDeterministic(ended(req, failureOf(out), NoValue))

AloneReturn(req, out) ==
    IF req.route = "analyze"
    THEN AloneAnalysis(req,
                       IF req.pc = "genai" /\ out.kind = "text"
                       THEN extractAnalysisFromGenAI(out.text)
                       ELSE IF req.pc = "ollama" /\ out.kind \in {"text", "noResponse"}
                       THEN extractAnalysisFromAI(dataOf(out))
                       ELSE NoMatch,
                       out)
    ELSE AloneQuestions(req,
                        IF req.pc = "genai" /\ out.kind = "text"
                        THEN GenAIQuestionsTable[out.text]
                        ELSE IF req.pc = "ollama" /\ out.kind \in {"text", "noResponse"}
                        THEN OllamaQuestionsTable[dataOf(out).hasResponse, dataOf(out).response]
                        ELSE <<>>,
                        out)

\* the outcomes the backend call that req awaits can come back with
OutcomesAwaited(req) ==
    LET texts == IF req.route = "analyze" THEN AnalysisTexts ELSE QuestionTexts
    IN  IF req.pc = "genai" THEN PrimaryOutcomes(texts)
        ELSE IF req.pc = "ollama" THEN SecondaryOutcomes(texts)
        ELSE {}

SameStage(s, t) ==
    /\ s.stage = t.stage
    /\ s.outcome = t.outcome
    /\ s.outcome = "valid" => s.result = t.result

\* the stages of alone that have ended are the first stages of req
EndedAlike(alone, req) ==
    /\ Len(alone.stages) <= Len(req.stages)
    /\ \A i \in 1..Len(alone.stages) :
          alone.stages[i].outcome # "pending" => SameStage(alone.stages[i], req.stages[i])

SameRecord(alone, req) ==
    /\ alone.pc = req.pc
    /\ alone.route = req.route
    /\ Len(alone.stages) = Len(req.stages)
    /\ \A i \in 1..Len(alone.stages) : SameStage(alone.stages[i], req.stages[i])
    /\ Len(alone.responses) = Len(req.responses)
    /\ \A i \in 1..Len(alone.responses) :
          /\ alone.responses[i].status = req.responses[i].status
          /\ alone.responses[i].payload = req.responses[i].payload

\* req is a record that a request with its route and body has when it is the
\* only request, after no, one or two backend calls came back
RunsAlone(req, key) ==
    IF req.route = "none"
    THEN req.pc = "idle" /\ req.stages = <<>> /\ req.responses = <<>>
    ELSE /\ req.body \in (IF req.route = "analyze" THEN AnalyzeBodies ELSE GenerateBodies)
         /\ LET entered == AloneArrival(req.route, req.body, key)
            IN  \/ SameRecord(entered, req)
                \/ \E first \in OutcomesAwaited(entered) :
                      LET once == AloneReturn(entered, first)
                      IN  \/ SameRecord(once, req)
                          \/ /\ EndedAlike(once, req)
                             /\ \E second \in OutcomesAwaited(once) :
                                   SameRecord(AloneReturn(once, second), req)

\* C11: two requests handled concurrently, in any mix of /analyze and
\* /generate and interleaved at their awaits, do not influence each other:
\* the stages with their outcomes and the response of each request are those
\* the request has when it runs alone with the same body and the same backend
\* outcomes.
C11_RequestsDoNotInterfere == \A r \in Requests : RunsAlone(reqs[r], apiKey)

C11_Witness ==
    \E r, q \in Requests :
        /\ reqs[r].route = "analyze"
        /\ reqs[q].route = "analyze"
        /\ reqs[r].body # reqs[q].body
        /\ Len(reqs[r].stages) = 3
        /\ reqs[r].stages[3].outcome = "valid"
        /\ Len(reqs[r].responses) = 1
        /\ reqs[q].pc = "ollama"
        /\ reqs[q].responses = <<>>

\* the objects that JSON.parse or the manual extraction yields on the texts
ParsedObjects ==
    {raw.obj : raw \in {p \in UNION {{t.specific, t.fixed, t.broad, Parsed("ok", t.manual)} :
                                        t \in AnalysisTexts} : p.kind = "ok"}}

\* the analysis has its four scores as some parse of a backend text has them
ScoresAsParsed(payload) ==
    \E obj \in ParsedObjects :
        /\ ScoreFields \subseteq obj.has
        /\ payload.overallScore = obj.overallScore
        /\ payload.technicalScore = obj.technicalScore
        /\ payload.behavioralScore = obj.behavioralScore
        /\ payload.communicationScore = obj.communicationScore

ScoresInRange(payload) ==
    /\ payload.overallScore \in 0..100
    /\ payload.technicalScore \in 0..100
    /\ payload.behavioralScore \in 0..100
    /\ payload.communicationScore \in 0..100

FromBackend(r) ==
    LET st == reqs[r].stages
    IN  /\ st # <<>>
        /\ st[Len(st)].outcome = "valid"
        /\ st[Len(st)].stage \in {"primary", "secondary"}

\* C28: only the deterministic stage of /analyze keeps the four scores in
\* 0..100; an analysis taken from a generative backend is accepted once its
\* four score fields are defined and is sent with the parsed values as they
\* are, neither clamped nor rounded, so a backend text with a score of 150
\* gives a response with that score.
C28_BackendScoresUnchanged ==
    \A r \in Requests :
        (reqs[r].route = "analyze" /\ Ended(r)) =>
            IF FromBackend(r)
            THEN ScoresAsParsed(reqs[r].responses[1].payload)
            ELSE ScoresInRange(reqs[r].responses[1].payload)

C28_Witness ==
    \E r, q \in Requests :
        /\ reqs[r].route = "analyze"
        /\ Ended(r)
        /\ FromBackend(r)
        /\ reqs[r].responses[1].status = 200
        /\ reqs[r].responses[1].payload.overallScore = 150
        /\ reqs[q].route = "analyze"
        /\ Ended(q)
        /\ Len(reqs[q].stages) = 3
        /\ reqs[q].stages[3].outcome = "valid"
        /\ ScoresInRange(reqs[q].responses[1].payload)

(***************************************************************************)
(* Properties of the parser (checked under SpecParse)                      *)
(***************************************************************************)
ParseEnded == ppc # "call"

HasNonWhitespace(s) == \E i \in 1..Len(s) : ~IsSpace(CharAt(s, i))

ResultFields ==
    {"personalInfo", "skills", "experience", "projects", "education", "certifications",
     "languages"}

\* the extractors that ran to completion before extractor number fault threw
CompletedBefore(failing) ==
    {ExtractorOrder[k] : k \in {j \in 1..Len(ExtractorOrder) : failing = 0 \/ j < failing}}

\* C2: on a text with a character that is not white space parseResumeContent
\* returns, never throws, a record with all seven fields; when an extractor
\* throws, the fields of the extractors that ran before it hold what those
\* extractors returned.
C2_ReturnsAllFields ==
    (ParseEnded /\ HasNonWhitespace(resumeText)) =>
        /\ ppc = "returned"
        /\ DOMAIN result = ResultFields
        /\ \A f \in CompletedBefore(fault) : result[f] = ExtractionTable[resumeText][f]

C2_Witness ==
    /\ ppc = "returned"
    /\ fault = 3
    /\ result.personalInfo.name = "Jane Doe"
    /\ result.skills # <<>>
    /\ result.languages = <<>>

\* C3: parseResumeContent throws exactly when its text is empty or consists of
\* white space only; it then returns no record, and on no other text does it
\* throw.
C3_ThrowsExactlyOnEmptyInput ==
    ParseEnded =>
        /\ ppc = "thrown" <=> ~HasNonWhitespace(resumeText)
        /\ ppc = "thrown" => result = NoValue

C3_Witness ==
    /\ ppc = "thrown"
    /\ Len(resumeText) > 1
    /\ includes(resumeText, "\n")

\* C10: the list extractSkills returns never holds two entries that are equal
\* without regard to letter case.
C10_NoCaseInsensitiveDuplicates ==
    (ppc = "returned" /\ fault = 0) =>
        \A i, j \in 1..Len(result.skills) :
            i # j => toLowerCase(result.skills[i]) # toLowerCase(result.skills[j])

C10_Witness ==
    /\ ppc = "returned"
    /\ fault = 0
    /\ resumeText = "Skills\n React, python\n- react, Docker"
    /\ \E i, j \in 1..Len(result.skills) :
          /\ i < j
          /\ result.skills[i] = "React"
          /\ result.skills[j] = "react"

\* C30: the seven extractors run in the order personalInfo, skills,
\* experience, projects, education, certifications, languages inside one
\* guard; when the k-th extractor throws, the record returned holds the
\* extracted values in fields 1 to k-1 and the empty defaults in fields k
\* to 7.
C30_FieldsAfterThrowStayEmpty ==
    (ppc = "returned" /\ fault >= 1) =>
        \A n \in 1..Len(ExtractorOrder) :
            result[ExtractorOrder[n]] =
                IF n < fault THEN ExtractionTable[resumeText][ExtractorOrder[n]]
                ELSE EmptyResult[ExtractorOrder[n]]

C30_Witness ==
    /\ ppc = "returned"
    /\ fault = 2
    /\ result.personalInfo.name = "Jane Doe"
    /\ ExtractionTable[resumeText].skills # <<>>
    /\ result.skills = <<>>
    /\ \A n \in 2..Len(ExtractorOrder) : result[ExtractorOrder[n]] = <<>>

(***************************************************************************)
(* Properties of the section extractors (checked under SpecSections)       *)
(***************************************************************************)
Returned == ppc = "returned"

SamePair(a, b) == a.title = b.title /\ a.company = b.company

\* C17: the experience list never holds two entries with the same title and
\* the same company, whatever company, job-title, bullet and section-header
\* lines follow the header, a company line followed by two job-title lines
\* included.
C17_NoDuplicateJobs ==
    Returned =>
        \A i, j \in 1..Len(result.experience) :
            i # j => ~SamePair(result.experience[i], result.experience[j])

\* a company line followed by two job-title lines: the entry of the first
\* title is listed twice, both times with the second title
C17_Witness ==
    /\ Returned
    /\ resumeText =
         "Experience\nAcme Technologies Pvt\nSoftware Engineer 2019 - 2021\nSenior Developer 2021 - Present"
    /\ Len(result.experience) = 2
    /\ result.experience[1] = result.experience[2]
    /\ result.experience[1].title = "Senior Developer"
    /\ result.experience[1].company = "Acme Technologies Pvt"

\* C18: for the line "Software Engineer at Acme - Built internal tools" after
\* an "Experience" header parseResumeContent returns an experience list whose
\* first entry has title "Software Engineer" and company "Acme".
C18_TitleAtCompany ==
    (Returned /\ resumeText \in ScenarioTexts) =>
        /\ Len(result.experience) >= 1
        /\ result.experience[1].title = "Software Engineer"
        /\ result.experience[1].company = "Acme"

\* the whole scenario: name and skills are found, the experience list is empty
C18_Witness ==
    /\ Returned
    /\ Len(linesOf(resumeText)) = 7
    /\ resumeText \in ScenarioTexts
    /\ result.personalInfo.name = "John Doe"
    /\ {"Python", "React", "AWS"} \subseteq Range(result.skills)
    /\ result.experience = <<>>

\* C20: the project list never holds two projects with the same name, whether
\* the projects section ends at a foreign section header or at the end of the
\* text.
C20_NoDuplicateProjects ==
    Returned =>
        \A i, j \in 1..Len(result.projects) :
            i # j => result.projects[i].name # result.projects[j].name

\* the same project line twice and then a foreign header: one entry
C20_Witness ==
    /\ Returned
    /\ resumeText = "Projects\nInventory Tracker: 2023\nInventory Tracker: 2023\nEducation"
    /\ Len(result.projects) = 1
    /\ result.projects[1].name = "Inventory Tracker: 2023"

Lines == linesOf(resumeText)

CertificationForeign == {"education", "experience", "skills", "projects", "languages"}

\* a header line of the section with the keywords own; the certifications
\* extractor takes no bullet line for a header
IsHeader(line, own, bulletsCount) ==
    includesAny(toLowerCase(line), own) /\ (bulletsCount \/ ~startsWithBullet(line))

\* the state of the pass before it reads line i: Before until a header line,
\* InSection until the first line with a foreign keyword, Done from then on
RECURSIVE PhaseAt(_, _, _, _, _)
PhaseAt(lines, i, own, foreign, bulletsCount) ==
    IF i = 1 THEN "Before"
    ELSE LET phase == PhaseAt(lines, i - 1, own, foreign, bulletsCount)
             line == lines[i - 1]
         IN  IF phase = "Before"
             THEN (IF IsHeader(line, own, bulletsCount) THEN "InSection" ELSE "Before")
             ELSE IF phase = "InSection" /\ ~includesAny(toLowerCase(line), foreign)
             THEN "InSection"
             ELSE "Done"

\* the lines read while InSection that do not end the section
SeenInSection(lines, own, foreign, bulletsCount) ==
    {i \in 1..Len(lines) :
        /\ PhaseAt(lines, i, own, foreign, bulletsCount) = "InSection"
        /\ ~includesAny(toLowerCase(lines[i]), foreign)}

\* C19: the section pass of extractSkills and extractCertifications goes
\* Before, InSection, Done: what it collects comes only from lines read while
\* InSection, the first line with a foreign section keyword moves it to Done,
\* and no line after that, a repeated header included, contributes content.
C19_SinglePassSections ==
    Returned =>
        /\ Range(result.certifications) \subseteq
             UNION {Range(certificationsOf(trim(Lines[i]))) :
                      i \in SeenInSection(Lines, certKeywords, CertificationForeign, FALSE)}
        /\ Range(skillsSectionScan(Lines, 1, FALSE, FALSE)) \subseteq
             UNION {Range(extractSkillsFromLine(Lines[i])) :
                      i \in SeenInSection(Lines, skillKeywords, skillsSectionEnders, TRUE)}

\* a line with a foreign keyword that also holds a keyword of the own section
\* is read as a header: the line after it is still collected
C19_Witness ==
    /\ Returned
    /\ resumeText =
         "Certifications\n- AWS Certified Developer\nProjects and Achievements\nGoogle Cloud Professional"
    /\ PhaseAt(Lines, 4, certKeywords, CertificationForeign, FALSE) = "Done"
    /\ result.certifications = <<"AWS Certified Developer", "Google Cloud Professional">>

\* what a line inside the certifications section contributes: the line, with
\* a leading bullet marker stripped, when it is longer than
\* MinCertificationLength and starts with a bullet marker or holds one of
\* certificationWords
CertificationEntry(line) ==
    IF Len(line) > MinCertificationLength
       /\ (startsWithBullet(line) \/ includesAny(line, certificationWords))
    THEN <<IF startsWithBullet(line) THEN trim(stripBullet(line)) ELSE line>>
    ELSE <<>>

\* the entries of the lines from i on that lie inside the section
RECURSIVE EntriesInSection(_, _)
EntriesInSection(lines, i) ==
    IF i > Len(lines) THEN <<>>
    ELSE (IF i \in SeenInSection(lines, certKeywords, CertificationForeign, FALSE)
          THEN CertificationEntry(trim(lines[i]))
          ELSE <<>>) \o EntriesInSection(lines, i + 1)

\* C21: inside the certifications section, after its header and before a
\* foreign section header, every line longer than 5 characters that starts
\* with a bullet marker or contains a provider keyword such as "Certified",
\* "AWS" or "Coursera" is collected, in document order, with a leading bullet
\* marker stripped.
C21_CertificationLinesCollected ==
    Returned => result.certifications = EntriesInSection(Lines, 1)

\* the line "AWS Certified Developer" inside the section is read as another
\* header and is not collected
C21_Witness ==
    /\ Returned
    /\ resumeText = "Certifications\nAWS Certified Developer\n- Google Cloud Professional"
    /\ result.certifications = <<"Google Cloud Professional">>
    /\ EntriesInSection(Lines, 1) = <<"AWS Certified Developer", "Google Cloud Professional">>

(***************************************************************************)
(* Properties of the engines (checked under SpecEngines)                   *)
(***************************************************************************)
CallIndexes == 1..Len(calls)

SameCall(i, j) == calls[i].engine = calls[j].engine /\ calls[i].args = calls[j].args

FeedbackDone == fpc = "done"

NoStrengthFires ==
    /\ fbAnalysis.experienceMentions = 0
    /\ fbAnalysis.problemSolving = 0
    /\ fbAnalysis.specificExamples = 0
    /\ fbAnalysis.communicationQuality = 0
    /\ fbAnalysis.technicalTerms = 0

BriefAnswers == AverageBelow(fbAnalysis.averageLength, 50)

NoWeaknessFires ==
    /\ ~BriefAnswers
    /\ fbAnalysis.specificExamples > 0
    /\ fbAnalysis.problemSolving > 0
    /\ fbAnalysis.technicalTerms > 0 \/ ~includes(toLowerCase(fbJob.title), "technical")

DefaultStrengths ==
    <<"Good communication skills", "Demonstrated relevant experience",
      "Provided specific examples">>

DefaultWeaknesses ==
    <<"Could provide more detailed technical explanations",
      "Consider using more specific metrics in answers",
      "Practice STAR method for behavioral questions">>

BaselineSuggestions ==
    <<"Practice common interview questions regularly",
      "Prepare specific examples for your experience",
      "Use the STAR method (Situation, Task, Action, Result)",
      "Research the company and role thoroughly",
      "Practice speaking clearly and confidently">>

\* C22: for every analysis generateFeedback returns three non-empty lists;
\* strengths and weaknesses are each a fixed list of three entries when none
\* of their thresholds fires, and suggestions are the same five baseline
\* entries followed by at most two conditional entries.
C22_FeedbackListsNeverEmpty ==
    FeedbackDone =>
        /\ fbFeedback.strengths # <<>>
        /\ fbFeedback.weaknesses # <<>>
        /\ NoStrengthFires => fbFeedback.strengths = DefaultStrengths
        /\ NoWeaknessFires => fbFeedback.weaknesses = DefaultWeaknesses
        /\ Len(fbFeedback.suggestions) \in 5..7
        /\ SubSeq(fbFeedback.suggestions, 1, 5) = BaselineSuggestions

C22_Witness ==
    /\ FeedbackDone
    /\ NoWeaknessFires
    /\ fbFeedback.weaknesses = DefaultWeaknesses
    /\ Len(fbFeedback.strengths) = 5
    /\ Len(fbFeedback.suggestions) = 5

(***************************************************************************)
(* Properties of the save-interview route (checked under SpecSave)         *)
(***************************************************************************)
SaveDone == svpc = "done"

OtherFieldsValid ==
    /\ saveBody.name # "" /\ saveBody.mobileNumber # ""
    /\ saveBody.jobTitle # "" /\ saveBody.company # ""

ZeroRejected ==
    (saveBody.hasOverall /\ saveBody.overallScore = 0) =>
        saveResponse.status = 400 /\ stored = <<>>

====
